---- MODULE Spec2Model ----
(***************************************************************************)
(* A model of mosquitto-rs: the safe wrapper (mosquitto-rs/src/lowlevel.rs) *)
(* around the native mosquitto client library whose entry points are        *)
(* declared in libmosquitto-sys/src/lib.rs.                                 *)
(*                                                                         *)
(* The wrapper is modelled from its source.  The native library's body is  *)
(* not part of the source files; the definitions whose names start with    *)
(* mosquitto_ or Native model it from the specification's component design.*)
(***************************************************************************)
EXTENDS Integers, Sequences, FiniteSets, TLC

(***************************************************************************)
(* Bounds of the model.                                                    *)
(***************************************************************************)
NThreads == 2        \* application threads that call into the wrapper
MaxOps == 2          \* wrapper calls each thread makes
MaxCalls == 5        \* wrapper calls made on one client
MaxEvents == 4       \* network events one client sees
MaxMid == 2          \* message identifiers run over 1..MaxMid (65535 on the wire)
RetryLimit == 1      \* the configured retry limit of a delivery
MaxPublish == 3      \* publish and subscribe calls made on a connected client
MaxNet == 2          \* acknowledgements and retry timeouts it sees
MaxIn == 4           \* inbound PUBLISH and PUBREL packets it sees
MaxRaised == 2       \* callbacks the native library invokes on a connected client
MaxDepth == 2        \* callbacks in progress at once, one inside the other
MaxRefs == 1         \* Refs a thread holds at once
MaxGets == 1         \* get_callbacks calls each thread makes

Threads == 1..NThreads

VARIABLES
    INIT,             \* lowlevel.rs:10  static INIT: Once
    libInitCalls,     \* invocations of sys::mosquitto_lib_init
    libInitReturned,  \* returns of sys::mosquitto_lib_init
    libCleanupCalls,  \* invocations of sys::mosquitto_lib_cleanup
    newCalls,         \* invocations of sys::mosquitto_new
    versionCalls,     \* invocations of sys::mosquitto_lib_version
    destroyCalls,     \* invocations of sys::mosquitto_destroy
    pc,               \* per thread: the place in the wrapper function it runs
    op,               \* per thread: the wrapper function it runs
    opsDone,          \* per thread: wrapper calls made so far
    clean_session,    \* per thread: the clean_session flag given to mosquitto_new
    mosq,             \* per thread: the Mosq value it owns, if any
    registered,       \* per thread: the native callbacks set on its handle
    cbArc,            \* per thread: strong count of its Arc<CallbackWrapper>
    created,          \* what the constructor that returned in the last step was given
                      \* and returned
    vers,             \* the LibraryVersion the last lib_version call returned
    text,             \* the text Display last wrote for it
    session,          \* native: the session's connection state
    userDisconnect,   \* native: disconnect() was called since the last connect
    connParams,       \* native: the connect parameters stored (for reconnect)
    nativeConnectCalls, \* invocations of mosquitto_connect_bind[_async] / mosquitto_reconnect
    connectPackets,   \* CONNECT packets emitted
    outstanding,      \* CONNECT handshakes awaiting their CONNACK
    disconnectCalls,  \* invocations of Mosq::disconnect
    loopThread,       \* native: the background loop thread is running
    lpc,              \* per thread: idle, or inside loop_until_explicitly_disconnected
    calls,            \* wrapper calls made on the client so far
    events,           \* network events the loop has seen so far
    rc,               \* the native return code of the last native call
    result,           \* the Result the last wrapper call returned
    step,             \* the operation or event of the last step
    handlerLog,       \* the user handler invocations, in order
    eventLog,         \* the events whose callback has borrowed or has ended, in order
    dstack,           \* the callbacks in progress on the loop thread, innermost last
    cell,             \* the borrow flag of CallbackWrapper.cb (a RefCell)
    panicked,         \* a panic was raised on the loop thread, or the process ended
    refs,             \* per thread: its get_callbacks call and the Refs it holds
    mid,              \* lowlevel.rs:264, 291: the local the native call writes the id to
    callQos,          \* the qos argument of the last publish or subscribe call
    callArgs,         \* its topic or filter and its payload length
    lastMid,          \* native: the message identifier counter
    outbound,         \* native: the unresolved outbound deliveries, oldest first
    outQueue,         \* native: the packets queued for the loop to write
    wire,             \* the packets the loop has written, in order
    inbound,          \* native: per identifier, the inbound QoS2 exchange
    report,           \* native: the last delivery outcome reported
    pubCalls,         \* publish and subscribe calls made so far
    netEvents,        \* acknowledgements, timeouts or inbound packets so far
    issued,           \* the operations that returned Ok, in the order of their calls
    nativeCalls,      \* invocations of sys::mosquitto_publish / mosquitto_subscribe
    outcomes          \* native: the deliveries resolved without an acknowledgement

ctorVars == <<registered, cbArc, created>>
versVars == <<vers, text>>
libRest == <<INIT, libInitCalls, libInitReturned, libCleanupCalls, newCalls,
             versionCalls, pc, op, opsDone, clean_session, mosq, ctorVars, versVars>>
libVars == <<INIT, libInitCalls, libInitReturned, libCleanupCalls, newCalls,
             versionCalls, destroyCalls, pc, op, opsDone, clean_session, mosq,
             ctorVars, versVars>>

sessVars == <<session, userDisconnect, connParams, nativeConnectCalls,
              connectPackets, outstanding, disconnectCalls, loopThread, lpc,
              calls, events>>
apiVars == <<rc, result, step>>
dispVars == <<handlerLog, eventLog, dstack, cell, panicked, refs>>

delivVars == <<mid, callQos, callArgs, lastMid, outbound, outQueue, wire, inbound, report,
               pubCalls, netEvents, issued, nativeCalls, outcomes>>

vars == <<libVars, sessVars, apiVars, dispVars, delivVars>>

\* What the actions of one part of the model leave alone.
notLib == <<sessVars, apiVars, dispVars, delivVars>>
notSess == <<libVars, delivVars>>
notDeliv == <<libVars, sessVars>>

(***************************************************************************)
(* Library initialisation and construction (lowlevel.rs:10-108, 514-520).  *)
(***************************************************************************)
LibOps == {"with_auto_id", "with_id", "lib_version"}

\* A slip that takes the bytes as they are, without looking for a NUL.
cstr_ok_Unchecked(s) == TRUE

\* cstr (lowlevel.rs:56-58): CString::new fails on an embedded NUL byte.
\* A string is a sequence of byte values; 0 is NUL.
cstr_ok(s) == \A i \in 1..Len(s) : s[i] # 0

\* What a constructor call was given and what it returned: the id (the empty
\* string for with_auto_id's null pointer), whether mosquitto_new returned
\* null, and Ok, Error::Create or the NulError of cstr.
Created(id, isnull, r) == [id |-> id, null |-> isnull, result |-> r]
NoneCreated == Created(<<>>, FALSE, "none")

\* A slip that takes the handle without looking at it.
new_result_IgnoresNull(isnull) == "Ok"

\* if m.is_null() { Err(Error::Create(..)) } else { Ok(..) }
\* (lowlevel.rs:82-86, 102-106).
new_result(isnull) == IF isnull THEN "Create" ELSE "Ok"

\* LibraryVersion (lowlevel.rs:21-31).
LibraryVersion(major, minor, revision, version) ==
    [major |-> major, minor |-> minor, revision |-> revision, version |-> version]
\* The value lib_version starts from (lowlevel.rs:43-48).
NoVersion == LibraryVersion(0, 0, 0, 0)

\* sys::mosquitto_lib_version: the parts of the linked library's version,
\* and the number made of them that it returns.
mosquitto_lib_version(v) ==
    LibraryVersion(v.major, v.minor, v.revision,
                   v.major * 1000000 + v.minor * 1000 + v.revision)

\* The version of the library linked in.
LinkedVersion == [major |-> 2, minor |-> 0, revision |-> 18]

\* `{}` of a c_int: its decimal digits, after a minus sign if negative.
Digits == <<"0", "1", "2", "3", "4", "5", "6", "7", "8", "9">>
RECURSIVE Natural_fmt(_)
Natural_fmt(n) ==
    IF n < 10 THEN <<Digits[n + 1]>>
    ELSE Append(Natural_fmt(n \div 10), Digits[(n % 10) + 1])
c_int_fmt(n) == IF n < 0 THEN <<"-">> \o Natural_fmt(0 - n) ELSE Natural_fmt(n)

\* Display for LibraryVersion (lowlevel.rs:33-37):
\* write!(f, "{}.{}.{}", self.minor, self.major, self.revision).
LibraryVersion_fmt(v) ==
    c_int_fmt(v.minor) \o <<".">> \o c_int_fmt(v.major) \o <<".">> \o c_int_fmt(v.revision)

LibInit ==
    /\ INIT = "Incomplete"
    /\ libInitCalls = 0
    /\ libInitReturned = 0
    /\ libCleanupCalls = 0
    /\ newCalls = 0
    /\ versionCalls = 0
    /\ destroyCalls = 0
    /\ pc = [t \in Threads |-> "idle"]
    /\ op = [t \in Threads |-> "none"]
    /\ opsDone = [t \in Threads |-> 0]
    /\ clean_session = [t \in Threads |-> FALSE]
    /\ mosq = [t \in Threads |-> "none"]
    /\ registered = [t \in Threads |-> {}]
    /\ cbArc = [t \in Threads |-> 0]
    /\ created = NoneCreated
    /\ vers = NoVersion
    /\ text = <<>>

\* A thread enters one of the three public entry points.  A thread that
\* already owns a Mosq only asks for the version (it has one slot).
CallEntry(t, o) ==
    /\ pc[t] = "idle"
    /\ opsDone[t] < MaxOps
    /\ o \in LibOps
    /\ (o # "lib_version") => mosq[t] = "none"
    /\ pc' = [pc EXCEPT ![t] = "init_library"]
    /\ op' = [op EXCEPT ![t] = o]
    /\ opsDone' = [opsDone EXCEPT ![t] = @ + 1]
    /\ created' = NoneCreated
    /\ UNCHANGED <<notLib, versVars, registered, cbArc, clean_session, INIT, libInitCalls, libInitReturned, libCleanupCalls,
                   newCalls, versionCalls, destroyCalls, mosq>>

\* A plausible slip: the initialiser is called directly, without the Once.
init_library_NoOnce(t) ==
    /\ pc[t] = "init_library"
    /\ libInitCalls' = libInitCalls + 1
    /\ pc' = [pc EXCEPT ![t] = "in_lib_init"]
    /\ created' = NoneCreated
    /\ UNCHANGED <<notLib, versVars, registered, cbArc, clean_session, INIT, libInitReturned, libCleanupCalls, newCalls,
                   versionCalls, destroyCalls, op, opsDone, mosq>>

\* init_library (lowlevel.rs:12-18): INIT.call_once(|| mosquitto_lib_init()).
\* The first caller runs the closure; a caller that finds the Once running
\* blocks (no step) until it is complete; later callers pass through.
init_library(t) ==
    /\ pc[t] = "init_library"
    /\ \/ /\ INIT = "Incomplete"
          /\ INIT' = "Running"
          /\ libInitCalls' = libInitCalls + 1
          /\ pc' = [pc EXCEPT ![t] = "in_lib_init"]
       \/ /\ INIT = "Complete"
          /\ pc' = [pc EXCEPT ![t] = "body"]
          /\ UNCHANGED <<INIT, libInitCalls>>
    /\ created' = NoneCreated
    /\ UNCHANGED <<notLib, versVars, registered, cbArc, clean_session, libInitReturned, libCleanupCalls, newCalls, versionCalls,
                   destroyCalls, op, opsDone, mosq>>

\* sys::mosquitto_lib_init returns and call_once marks the Once complete.
call_once_return(t) ==
    /\ pc[t] = "in_lib_init"
    /\ libInitReturned' = libInitReturned + 1
    /\ INIT' = "Complete"
    /\ pc' = [pc EXCEPT ![t] = "body"]
    /\ created' = NoneCreated
    /\ UNCHANGED <<notLib, versVars, registered, cbArc, clean_session, libInitCalls, libCleanupCalls, newCalls, versionCalls,
                   destroyCalls, op, opsDone, mosq>>

\* lib_version (lowlevel.rs:40-54), after init_library: the native
\* mosquitto_lib_version writes the three parts of the linked library's
\* version v and returns its version number.
lib_version(t, v) ==
    /\ pc[t] = "body" /\ op[t] = "lib_version"
    /\ versionCalls' = versionCalls + 1
    /\ vers' = mosquitto_lib_version(v)
    /\ pc' = [pc EXCEPT ![t] = "idle"]
    /\ created' = NoneCreated
    /\ UNCHANGED <<notLib, text, registered, cbArc, clean_session, INIT, libInitCalls, libInitReturned, libCleanupCalls,
                   newCalls, destroyCalls, op, opsDone, mosq>>

\* The clean_session argument with_auto_id passes to mosquitto_new
\* (lowlevel.rs:81): a broker-assigned id requires a clean session.
auto_id_clean_session_False == FALSE
auto_id_clean_session == TRUE

\* A slip that leaves the message callback out.
set_callbacks_NoMessage ==
    [connect |-> "CallbackWrapper::connect",
     disconnect |-> "CallbackWrapper::disconnect",
     publish |-> "CallbackWrapper::publish",
     subscribe |-> "CallbackWrapper::subscribe"]

\* Mosq::set_callbacks (lowlevel.rs:298-307): the callback registered for
\* each kind of event.
set_callbacks ==
    [connect |-> "CallbackWrapper::connect",
     disconnect |-> "CallbackWrapper::disconnect",
     publish |-> "CallbackWrapper::publish",
     subscribe |-> "CallbackWrapper::subscribe",
     message |-> "CallbackWrapper::message"]

\* What both constructors do with the handle mosquitto_new returned
\* (lowlevel.rs:82-86, 102-106): null is Error::Create and cb is dropped;
\* otherwise Self { m, cb: Some(cb) } goes through set_callbacks, which
\* registers every callback of its table on the handle.
Built(t, id, clean, isnull) ==
    LET r == new_result(isnull)
    IN  /\ mosq' = [mosq EXCEPT ![t] = IF r = "Ok" THEN "live" ELSE "none"]
        /\ clean_session' = IF r = "Ok" THEN [clean_session EXCEPT ![t] = clean]
                            ELSE clean_session
        /\ registered' = [registered EXCEPT ![t] =
                              IF r = "Ok" THEN DOMAIN set_callbacks ELSE {}]
        /\ cbArc' = [cbArc EXCEPT ![t] = IF r = "Ok" THEN 1 ELSE 0]
        /\ created' = Created(id, isnull, r)

\* Mosq::with_auto_id (lowlevel.rs:77-88), after init_library:
\* mosquitto_new(null, true, cb); a null result is Error::Create.
with_auto_id(t, isnull) ==
    /\ pc[t] = "body" /\ op[t] = "with_auto_id"
    /\ newCalls' = newCalls + 1
    /\ Built(t, <<>>, auto_id_clean_session, isnull)
    /\ pc' = [pc EXCEPT ![t] = "idle"]
    /\ UNCHANGED <<notLib, versVars, INIT, libInitCalls, libInitReturned, libCleanupCalls,
                   versionCalls, destroyCalls, op, opsDone>>

\* Mosq::with_id (lowlevel.rs:93-108), after init_library: cstr(id)? returns
\* early before mosquitto_new is called.
with_id(t, id, clean, isnull) ==
    /\ pc[t] = "body" /\ op[t] = "with_id"
    /\ IF cstr_ok(id)
       THEN /\ newCalls' = newCalls + 1
            /\ Built(t, id, clean, isnull)
       ELSE /\ created' = Created(id, FALSE, "Nul")    \* cb is dropped by the ?
            /\ UNCHANGED <<newCalls, mosq, clean_session, registered, cbArc>>
    /\ pc' = [pc EXCEPT ![t] = "idle"]
    /\ UNCHANGED <<notLib, versVars, INIT, libInitCalls, libInitReturned, libCleanupCalls,
                   versionCalls, destroyCalls, op, opsDone>>

\* Drop for Mosq (lowlevel.rs:514-520): mosquitto_destroy(self.m).
drop(t) ==
    /\ pc[t] = "idle" /\ mosq[t] = "live"
    /\ destroyCalls' = destroyCalls + 1
    /\ mosq' = [mosq EXCEPT ![t] = "none"]
    /\ clean_session' = [clean_session EXCEPT ![t] = FALSE]   \* freed with the handle
    /\ registered' = [registered EXCEPT ![t] = {}]
    /\ cbArc' = [cbArc EXCEPT ![t] = 0]       \* the cb field is dropped last
    /\ created' = NoneCreated
    /\ UNCHANGED <<notLib, versVars, INIT, libInitCalls, libInitReturned, libCleanupCalls,
                   newCalls, versionCalls, pc, op, opsDone>>

\* A thread formats the LibraryVersion it was returned (to_string).
to_string(t) ==
    /\ pc[t] = "idle" /\ op[t] = "lib_version"
    /\ text # LibraryVersion_fmt(vers)
    /\ text' = LibraryVersion_fmt(vers)
    /\ UNCHANGED <<notLib, vers, ctorVars, INIT, libInitCalls, libInitReturned,
                   libCleanupCalls, newCalls, versionCalls, destroyCalls, pc, op,
                   opsDone, clean_session, mosq>>

Ids == {<<1>>, <<1, 0>>}   \* a client id, and one with an embedded NUL

LibNext ==
    \E t \in Threads :
        \/ \E o \in LibOps : CallEntry(t, o)
        \/ init_library(t)
        \/ call_once_return(t)
        \/ lib_version(t, LinkedVersion)
        \/ \E n \in BOOLEAN : with_auto_id(t, n)
        \/ \E id \in Ids, n \in BOOLEAN : with_id(t, id, FALSE, n)
        \/ drop(t)


(***************************************************************************)
(* Results of wrapper calls.  Error::result(rc, v) is Ok(v) when the native *)
(* return code is success and Err(Error::Mosq(rc)) otherwise.               *)
(***************************************************************************)
Ok(v) == [ok |-> TRUE, val |-> v, err |-> "none"]
Err(e) == [ok |-> FALSE, val |-> 0, err |-> e]
Error_result(r, v) == IF r = "Success" THEN Ok(v) ELSE Err(r)

IntMax == 2147483647                 \* the largest value of the native int

\* Unsigned values wider than the native int (u64, u128, usize) are kept as
\* two digits in base 2^31: the value is hi * 2^31 + lo, 0 <= lo <= IntMax.
Wide(hi, lo) == [hi |-> hi, lo |-> lo]

\* n.try_into::<c_int>() succeeds exactly when n <= c_int::MAX.
fits_c_int(n) == n.hi = 0

\* std::time::Duration, by its whole seconds (u64) and sub-second nanoseconds.
\* A slip that rounds to the nearest second.
as_secs_Rounded(d) ==
    IF d.nanos >= 500000000 THEN [d.secs EXCEPT !.lo = @ + 1] ELSE d.secs

\* Duration::as_secs drops the sub-second part.
as_secs(d) == d.secs

\* Duration::as_millis (u128): secs * 1000 + nanos / 1_000_000, computed in
\* base 2^31 with 2^31 = 2147483 * 1000 + 648.
as_millis(d) ==
    LET q == d.secs.lo \div 2147483
        r == d.secs.lo % 2147483
        low == r * 1000 - q * 648 + (d.nanos \div 1000000)
    IN  IF low < 0
        THEN Wide(d.secs.hi * 1000 + q - 1, (low + IntMax) + 1)
        ELSE Wide(d.secs.hi * 1000 + q, low)

None == [some |-> FALSE, s |-> <<>>]
Some(x) == [some |-> TRUE, s |-> x]

(***************************************************************************)
(* QoS (lowlevel.rs:478-512).                                              *)
(***************************************************************************)
QoSLevels == {"AtMostOnce", "AtLeastOnce", "ExactlyOnce"}

\* The discriminants numbered from one.
QoS_as_int_FromOne(q) ==
    CASE q = "AtMostOnce" -> 1
      [] q = "AtLeastOnce" -> 2
      [] q = "ExactlyOnce" -> 3

\* `qos as c_int`: the enum's discriminant (lowlevel.rs:482, 489, 494).
QoS_as_int(q) ==
    CASE q = "AtMostOnce" -> 0
      [] q = "AtLeastOnce" -> 1
      [] q = "ExactlyOnce" -> 2

\* A slip that counts the levels from one.
QoS_from_int_FromOne(i) ==
    CASE i = 1 -> "AtMostOnce"
      [] i = 2 -> "AtLeastOnce"
      [] OTHER -> "ExactlyOnce"

\* A slip that takes an unknown value for the lowest level.
QoS_from_int_OtherAtMostOnce(i) ==
    CASE i = 1 -> "AtLeastOnce"
      [] i = 2 -> "ExactlyOnce"
      [] OTHER -> "AtMostOnce"

\* QoS::from_int (lowlevel.rs:504-511).
QoS_from_int(i) ==
    CASE i = 0 -> "AtMostOnce"
      [] i = 1 -> "AtLeastOnce"
      [] i = 2 -> "ExactlyOnce"
      [] OTHER -> "ExactlyOnce"

(***************************************************************************)
(* Events: what the native library passes to the callback it invokes.      *)
(***************************************************************************)
\* granted_qos and payload are the buffers the event's pointer refers to;
\* null tells that the pointer is null, addr is its address modulo 4,
\* after is what the mapped memory following the buffer holds.
NoEvent ==
    [kind |-> "none", reason |-> 0, mid |-> 0, qos_count |-> 0,
     granted_qos |-> <<>>, topic |-> <<>>, payload |-> <<>>, payloadlen |-> 0,
     qos |-> 0, retain |-> FALSE, null |-> FALSE, addr |-> 0, after |-> <<>>]
EvConnect(r) == [NoEvent EXCEPT !.kind = "connect", !.reason = r]
EvDisconnect(r) == [NoEvent EXCEPT !.kind = "disconnect", !.reason = r]
EvPublish(m) == [NoEvent EXCEPT !.kind = "publish", !.mid = m]
EvSubscribe(m, granted) ==
    [NoEvent EXCEPT !.kind = "subscribe", !.mid = m, !.qos_count = Len(granted),
                    !.granted_qos = granted]
EvMessage(m, topic, payload, q, retain) ==
    [NoEvent EXCEPT !.kind = "message", !.mid = m, !.topic = topic,
                    !.payload = payload, !.payloadlen = Len(payload), !.qos = q,
                    !.retain = retain]

(***************************************************************************)
(* User handlers (lowlevel.rs:444-474): one record per invocation.         *)
(***************************************************************************)
\* A usize (64 bits) in base 2^31: top * 2^62 + hi * 2^31 + lo.
Usize(top, hi, lo) == [top |-> top, hi |-> hi, lo |-> lo]

\* payload is what can be read of the slice on_message is handed, payload_len
\* the slice's len().
NoCall ==
    [h |-> "none", reason |-> 0, mid |-> 0, granted_qos |-> <<>>,
     topic |-> <<>>, payload |-> <<>>, payload_len |-> Usize(0, 0, 0),
     qos |-> "none", retain |-> FALSE]

\* `n as usize` for a c_int n (lowlevel.rs:409, 428): the value sign-extended
\* to 64 bits, so a negative n becomes 2^64 + n.
as_usize(n) ==
    IF n >= 0 THEN Usize(0, 0, n) ELSE Usize(3, IntMax, (n + IntMax) + 1)

\* A native pointer to elements of size bytes (4 for *const c_int, 1 for
\* *const u8): null, or the address (modulo 4) of a buffer with the mapped
\* memory that follows it.
Ptr(null, addr, size, buf, after) ==
    [null |-> null, addr |-> addr, size |-> size, buf |-> buf, after |-> after]

\* What from_raw_parts comes to: a slice of len elements, of which s can be
\* read (the rest is not mapped), or the end of the process.
Slice(len, s) == [abort |-> FALSE, len |-> len, s |-> s]
SliceAbort == [abort |-> TRUE, len |-> Usize(0, 0, 0), s |-> <<>>]

\* The elements that can be read through a slice of len elements at ptr:
\* those of the buffer, then what the mapped memory after it holds; none
\* through a null pointer.
Readable(ptr, len) ==
    LET mapped == IF ptr.null THEN <<>> ELSE ptr.buf \o ptr.after
    IN  IF len.top = 0 /\ len.hi = 0 /\ len.lo <= Len(mapped)
        THEN SubSeq(mapped, 1, len.lo)
        ELSE mapped

\* The preconditions of from_raw_parts that the build with debug assertions
\* checks: ptr is not null and is aligned for the element type, and the
\* slice has at most isize::MAX (2^63 - 1) bytes.
from_raw_parts_precondition(ptr, len) ==
    /\ ~ptr.null
    /\ ptr.addr % ptr.size = 0
    /\ IF ptr.size = 1
       THEN len.top <= 1
       ELSE len.top = 0 /\ len.hi <= IntMax \div (ptr.size \div 2)

\* std::slice::from_raw_parts(ptr, len) (lowlevel.rs:409, 428), as the set of
\* its outcomes.  It reads nothing: it returns the slice of len elements at
\* ptr, whatever ptr and len are.  With a precondition violated the call is
\* undefined behaviour: the build with debug assertions ends the process,
\* the build without them returns the slice.
from_raw_parts(ptr, len) ==
    {Slice(len, Readable(ptr, len))}
        \cup (IF from_raw_parts_precondition(ptr, len) THEN {} ELSE {SliceAbort})

\* What a callback comes to once the callback object is borrowed: the
\* handler invocations it makes, or the end of the process before any.
Invoked(invocations) == [abort |-> FALSE, calls |-> invocations]
Aborted == [abort |-> TRUE, calls |-> <<>>]

\* The wrapper's callbacks (lowlevel.rs:379-434): the handler invocations one
\* native callback makes.

\* CallbackWrapper::connect (lowlevel.rs:379-384).
CallbackWrapper_connect(e) ==
    <<[NoCall EXCEPT !.h = "on_connect", !.reason = e.reason]>>

\* CallbackWrapper::disconnect (lowlevel.rs:386-391).
CallbackWrapper_disconnect(e) ==
    <<[NoCall EXCEPT !.h = "on_disconnect", !.reason = e.reason]>>

\* A slip that hands the handler a default identifier instead of the
\* acknowledged one.
CallbackWrapper_publish_DefaultMid(e) ==
    <<[NoCall EXCEPT !.h = "on_publish", !.mid = 0]>>

\* CallbackWrapper::publish (lowlevel.rs:393-398).
CallbackWrapper_publish(e) ==
    <<[NoCall EXCEPT !.h = "on_publish", !.mid = e.mid]>>

\* CallbackWrapper::subscribe (lowlevel.rs:400-413).  It converts every
\* element of the slice (iter().map(QoS::from_int).collect(), line 410):
\* reading a slice that runs past the mapped memory ends the process.
CallbackWrapper_subscribe(e) ==
    {IF granted_qos.abort \/ granted_qos.len # Usize(0, 0, Len(granted_qos.s))
     THEN Aborted
     ELSE Invoked(<<[NoCall EXCEPT !.h = "on_subscribe", !.mid = e.mid,
                                   !.granted_qos = [i \in 1..Len(granted_qos.s) |->
                                                        QoS_from_int(granted_qos.s[i])]]>>) :
         granted_qos \in from_raw_parts(Ptr(e.null, e.addr, 4, e.granted_qos, e.after),
                                        as_usize(e.qos_count))}

\* A slip that drops the handler invocation.
CallbackWrapper_message_Dropped(e) == {Invoked(<<>>)}

\* CallbackWrapper::message (lowlevel.rs:415-434).  It hands the slice to
\* on_message without reading it.
CallbackWrapper_message(e) ==
    {IF payload.abort
     THEN Aborted
     ELSE Invoked(<<[NoCall EXCEPT !.h = "on_message", !.mid = e.mid, !.topic = e.topic,
                                   !.payload = payload.s, !.payload_len = payload.len,
                                   !.qos = QoS_from_int(e.qos), !.retain = e.retain]>>) :
         payload \in from_raw_parts(Ptr(e.null, e.addr, 1, e.payload, e.after),
                                    as_usize(e.payloadlen))}

\* The native library invokes the callback registered for the event's kind:
\* the set of the outcomes of the callback's body.
CallbackInvoke(e) ==
    LET f == set_callbacks[e.kind]
    IN  CASE f = "CallbackWrapper::connect" -> {Invoked(CallbackWrapper_connect(e))}
          [] f = "CallbackWrapper::disconnect" -> {Invoked(CallbackWrapper_disconnect(e))}
          [] f = "CallbackWrapper::publish" -> {Invoked(CallbackWrapper_publish(e))}
          [] f = "CallbackWrapper::subscribe" -> CallbackWrapper_subscribe(e)
          [] f = "CallbackWrapper::message" -> CallbackWrapper_message(e)

\* RefCell::borrow, as the callbacks use it (cb.cb.borrow(), lowlevel.rs:382,
\* 389, 396, 411, 425): fails only while the cell is mutably borrowed (a
\* negative flag); otherwise one more shared borrow.
RefCell_borrow(flag) ==
    IF flag < 0 THEN [ok |-> FALSE, flag |-> flag] ELSE [ok |-> TRUE, flag |-> flag + 1]

\* The borrow ends when the handler returns: the callbacks hold a Ref
\* (cb.cb.borrow()), and Drop for Ref writes the flag minus one whatever the
\* flag holds.
RefCell_release(flag) == flag - 1

\* with_transient_client (lowlevel.rs:362-366) when func panics: the line
\* std::mem::forget(client) is not reached and the unwinding drops client,
\* whose Drop (lowlevel.rs:514-520) calls mosquitto_destroy on the handle.
with_transient_client_unwind == destroyCalls' = destroyCalls + 1

\* How the callback for e begins when the borrow flag it read holds flag
\* (lowlevel.rs:379-434): it invokes the handler under a new borrow, flag
\* plus one written; or cb.cb.borrow() panics and the panic unwinds through
\* with_transient_client; or the slice cannot be made and the process ends
\* without unwinding.  The subscribe callback makes its slice before it
\* borrows (lines 409-411), the message callback after (lines 425-428: its
\* borrow is written when the process ends).
CallbackBegin(e, flag) ==
    LET b == RefCell_borrow(flag)
        sliceFirst == set_callbacks[e.kind] = "CallbackWrapper::subscribe"
    IN  {IF o.abort /\ (sliceFirst \/ b.ok)
         THEN [end |-> "abort", flag |-> IF sliceFirst THEN flag ELSE b.flag,
               calls |-> <<>>]
         ELSE IF ~b.ok
         THEN [end |-> "panic", flag |-> flag, calls |-> <<>>]
         ELSE [end |-> "invoke", flag |-> b.flag, calls |-> o.calls] :
             o \in CallbackInvoke(e)}

\* A callback in progress: the event, the calls its handler has made, where
\* the callback stands ("borrow": the flag is read and the borrow not yet
\* written; "handler": the handler runs; "drop": the handler has returned
\* and the drop of the Ref has read the flag; "unwind": a panic of the
\* handler unwinds and the drop of the Ref has read the flag; "ended": the
\* callback has ended in a panic or with the process) and the flag as last
\* read.
Frame(e, flag) == [e |-> e, ops |-> 0, pc |-> "borrow", read |-> flag]

\* The native library invokes the callback registered for e on the loop's
\* thread (lowlevel.rs:379-434).  The subscribe callback makes its slice of
\* the granted values and reads it first (lines 409-410): where that ends
\* the process, no borrow is begun.  Then cb.cb.borrow() reads the borrow
\* flag.  The callback goes on in CallbackBorrow, CallbackReturn and
\* CallbackExit, steps of their own: other threads run between them.
Dispatch(e) ==
    /\ \E o \in CallbackInvoke(e) :
           IF o.abort /\ set_callbacks[e.kind] = "CallbackWrapper::subscribe"
           THEN /\ eventLog' = Append(eventLog, e)
                /\ panicked' = TRUE
                /\ UNCHANGED dstack
           ELSE /\ dstack' = Append(dstack, Frame(e, cell))
                /\ UNCHANGED <<eventLog, panicked>>
    /\ UNCHANGED <<handlerLog, cell, refs, destroyCalls>>

(***************************************************************************)
(* The session state machine of the native library (specification 4.3).   *)
(***************************************************************************)
SessionStates == {"Disconnected", "Connecting", "Connected", "Disconnecting"}

MinKeepAlive == 5    \* lowlevel.rs:147-149: "mosquitto has a minimum value of 5"

\* The connect parameters the native library keeps: none before the first
\* accepted connect, then those of the last one (the keep-alive in seconds).
NoParams == [stored |-> FALSE, keepalive |-> 0]
StoredParams(keepalive) == [stored |-> TRUE, keepalive |-> keepalive]

SessInit ==
    /\ session = "Disconnected"
    /\ userDisconnect = FALSE
    /\ connParams = NoParams
    /\ nativeConnectCalls = 0
    /\ connectPackets = 0
    /\ outstanding = 0
    /\ disconnectCalls = 0
    /\ loopThread = FALSE
    /\ lpc = [t \in Threads |-> "idle"]
    /\ calls = 0
    /\ events = 0

ApiInit ==
    /\ rc = "none"
    /\ result = Ok(0)
    /\ step = "init"

\* No thread has called get_callbacks.
NoRefs ==
    [t \in Threads |-> [pc |-> "idle", read |-> 0, held |-> 0, gets |-> 0, target |-> None]]

DispInit ==
    /\ handlerLog = <<>>
    /\ eventLog = <<>>
    /\ dstack = <<>>
    /\ cell = 0
    /\ panicked = FALSE
    /\ refs = NoRefs

\* Disconnected --connect()--> Connecting: emits CONNECT.  In every other
\* state the call fails and nothing is sent.
NativeConnect(keepalive) ==
    /\ nativeConnectCalls' = nativeConnectCalls + 1
    /\ IF session = "Connecting"
       THEN /\ rc' = "ConnectInProgress"
            /\ UNCHANGED <<session, userDisconnect, connParams, connectPackets, outstanding>>
       ELSE IF session \in {"Connected", "Disconnecting"}
       THEN /\ rc' = "AlreadyConnected"
            /\ UNCHANGED <<session, userDisconnect, connParams, connectPackets, outstanding>>
       ELSE IF keepalive < MinKeepAlive
       THEN /\ rc' = "InvalidArgument"
            /\ UNCHANGED <<session, userDisconnect, connParams, connectPackets, outstanding>>
       ELSE /\ rc' = "Success"
            /\ session' = "Connecting"
            /\ userDisconnect' = FALSE
            /\ connParams' = StoredParams(keepalive)
            /\ connectPackets' = connectPackets + 1
            /\ outstanding' = outstanding + 1

\* sys::mosquitto_connect_bind (lib.rs:157-163).
mosquitto_connect_bind(keepalive) == NativeConnect(keepalive)

\* sys::mosquitto_connect_bind_async (lib.rs:184-190): the same transition;
\* the blocking work is done by later loop iterations.
mosquitto_connect_bind_async(keepalive) == NativeConnect(keepalive)

\* sys::mosquitto_reconnect (lib.rs:201): connect with the stored parameters.
mosquitto_reconnect ==
    IF connParams.stored
    THEN NativeConnect(connParams.keepalive)
    ELSE /\ nativeConnectCalls' = nativeConnectCalls + 1
         /\ rc' = "InvalidArgument"
         /\ UNCHANGED <<session, userDisconnect, connParams, connectPackets, outstanding>>

\* A packet queued for the loop or written to the wire.
Packet(type, m, dup, q, retain) ==
    [type |-> type, mid |-> m, dup |-> dup, qos |-> q, retain |-> retain]

\* The record of an operation that returned Ok(m): what the application knows
\* it has issued.
Issued(o, m) == [op |-> o, mid |-> m]

\* The deliveries ds, each resolved with the given outcome.
Resolved(ds, outcome) ==
    [i \in 1..Len(ds) |-> [mid |-> ds[i].mid, kind |-> ds[i].kind, outcome |-> outcome]]

\* sys::mosquitto_disconnect (lib.rs:207): Connected --disconnect()-->
\* Disconnecting; the DISCONNECT packet is queued behind the packets of the
\* earlier operations and the loop sends it.
mosquitto_disconnect ==
    /\ IF session = "Connected"
       THEN /\ rc' = "Success"
            /\ session' = "Disconnecting"
            /\ userDisconnect' = TRUE
            /\ outQueue' = Append(outQueue, Packet("DISCONNECT", 0, FALSE, 0, FALSE))
       ELSE /\ rc' = "NotConnected"
            /\ UNCHANGED <<session, userDisconnect, outQueue>>
    /\ UNCHANGED <<connParams, nativeConnectCalls, connectPackets, outstanding>>

LoopActive == loopThread \/ \E t \in Threads : lpc[t] = "looping"

\* sys::mosquitto_loop_start (lib.rs:312): the loop runs on the client's one
\* dedicated background worker (specification 5).  The specification does
\* not say what a call returns while the worker is running.
mosquitto_loop_start ==
    IF loopThread
    THEN rc' \in {"Success", "InvalidArgument"} /\ UNCHANGED loopThread
    ELSE rc' = "Success" /\ loopThread' = TRUE

\* sys::mosquitto_loop_stop (lib.rs:315): stops the background loop.
mosquitto_loop_stop(force) ==
    IF loopThread
    THEN rc' = "Success" /\ loopThread' = FALSE
    ELSE rc' = "InvalidArgument" /\ UNCHANGED loopThread

(***************************************************************************)
(* The wrapper's session operations (lowlevel.rs:153-243, 325-355).  Each  *)
(* is called by an application thread that is not inside a blocking call.  *)
(***************************************************************************)
CanCall == calls < MaxCalls /\ \E t \in Threads : lpc[t] = "idle"

\* The shared body of connect and connect_non_blocking: cstr(host)?, then
\* cstr(bind_address)?, then keep_alive_interval.as_secs().try_into() or
\* MOSQ_ERR_INVAL, then the native call.
ConnectArgs(host, keep_alive_interval, bind_address) ==
    IF ~cstr_ok(host) \/ (bind_address.some /\ ~cstr_ok(bind_address.s))
    THEN "NulError"
    ELSE IF ~fits_c_int(as_secs(keep_alive_interval))
    THEN "MOSQ_ERR_INVAL"
    ELSE "Success"

\* A plausible slip: the native return code is dropped.
connect_IgnoresRc(host, keep_alive_interval, bind_address) ==
    /\ CanCall
    /\ calls' = calls + 1
    /\ step' = "connect"
    /\ IF ConnectArgs(host, keep_alive_interval, bind_address) = "Success"
       THEN /\ mosquitto_connect_bind(as_secs(keep_alive_interval).lo)
            /\ result' = Ok(0)
       ELSE /\ result' = Err(ConnectArgs(host, keep_alive_interval, bind_address))
            /\ UNCHANGED <<rc, session, userDisconnect, connParams,
                           nativeConnectCalls, connectPackets, outstanding>>
    /\ UNCHANGED <<notSess, disconnectCalls, loopThread, lpc, events, dispVars>>

\* Mosq::connect (lowlevel.rs:153-182).
connect(host, keep_alive_interval, bind_address) ==
    /\ CanCall
    /\ calls' = calls + 1
    /\ step' = "connect"
    /\ IF ConnectArgs(host, keep_alive_interval, bind_address) = "Success"
       THEN /\ mosquitto_connect_bind(as_secs(keep_alive_interval).lo)
            /\ result' = Error_result(rc', 0)
       ELSE /\ result' = Err(ConnectArgs(host, keep_alive_interval, bind_address))
            /\ UNCHANGED <<rc, session, userDisconnect, connParams,
                           nativeConnectCalls, connectPackets, outstanding>>
    /\ UNCHANGED <<notSess, disconnectCalls, loopThread, lpc, events, dispVars>>

\* Mosq::connect_non_blocking (lowlevel.rs:202-231).
connect_non_blocking(host, keep_alive_interval, bind_address) ==
    /\ CanCall
    /\ calls' = calls + 1
    /\ step' = "connect_non_blocking"
    /\ IF ConnectArgs(host, keep_alive_interval, bind_address) = "Success"
       THEN /\ mosquitto_connect_bind_async(as_secs(keep_alive_interval).lo)
            /\ result' = Error_result(rc', 0)
       ELSE /\ result' = Err(ConnectArgs(host, keep_alive_interval, bind_address))
            /\ UNCHANGED <<rc, session, userDisconnect, connParams,
                           nativeConnectCalls, connectPackets, outstanding>>
    /\ UNCHANGED <<notSess, disconnectCalls, loopThread, lpc, events, dispVars>>

\* Mosq::reconnect (lowlevel.rs:235-237).
reconnect ==
    /\ CanCall
    /\ calls' = calls + 1
    /\ step' = "reconnect"
    /\ mosquitto_reconnect
    /\ result' = Error_result(rc', 0)
    /\ UNCHANGED <<notSess, disconnectCalls, loopThread, lpc, events, dispVars>>

\* A copy-and-paste slip between the two one-line wrappers at lines 236 and
\* 242: disconnect calls the native reconnect.
disconnect_CallsReconnect ==
    /\ CanCall
    /\ calls' = calls + 1
    /\ step' = "disconnect"
    /\ disconnectCalls' = disconnectCalls + 1
    /\ mosquitto_reconnect
    /\ result' = Error_result(rc', 0)
    /\ issued' = IF result'.ok THEN Append(issued, Issued("disconnect", 0)) ELSE issued
    /\ UNCHANGED <<libVars, mid, callQos, callArgs, lastMid, outbound, outQueue, wire, inbound,
                   report, pubCalls, netEvents, nativeCalls, outcomes>>
    /\ UNCHANGED <<loopThread, lpc, events, dispVars>>

\* Mosq::disconnect (lowlevel.rs:241-243).
disconnect ==
    /\ CanCall
    /\ calls' = calls + 1
    /\ step' = "disconnect"
    /\ disconnectCalls' = disconnectCalls + 1
    /\ mosquitto_disconnect
    /\ result' = Error_result(rc', 0)
    /\ issued' = IF result'.ok THEN Append(issued, Issued("disconnect", 0)) ELSE issued
    /\ UNCHANGED <<libVars, mid, callQos, callArgs, lastMid, outbound, wire, inbound,
                   report, pubCalls, netEvents, nativeCalls, outcomes>>
    /\ UNCHANGED <<loopThread, lpc, events, dispVars>>

\* Mosq::start_loop_thread (lowlevel.rs:348-350).
start_loop_thread ==
    /\ CanCall
    /\ calls' = calls + 1
    /\ step' = "start_loop_thread"
    /\ mosquitto_loop_start
    /\ result' = Error_result(rc', 0)
    /\ UNCHANGED <<notSess, session, userDisconnect, connParams, nativeConnectCalls,
                   connectPackets, outstanding, disconnectCalls, lpc, events,
                   dispVars>>

\* Mosq::stop_loop_thread (lowlevel.rs:353-355).
stop_loop_thread(force_cancel) ==
    /\ CanCall
    /\ calls' = calls + 1
    /\ step' = "stop_loop_thread"
    /\ mosquitto_loop_stop(force_cancel)
    /\ result' = Error_result(rc', 0)
    /\ UNCHANGED <<notSess, session, userDisconnect, connParams, nativeConnectCalls,
                   connectPackets, outstanding, disconnectCalls, lpc, events,
                   dispVars>>

\* sys::mosquitto_loop_forever (lib.rs:305-310), entered by thread t: the
\* caller drives the client's loop until the disconnect (specification 4.5,
\* 5).
mosquitto_loop_forever(t) ==
    lpc' = [lpc EXCEPT ![t] = "looping"]

\* Mosq::loop_until_explicitly_disconnected (lowlevel.rs:325-343):
\* timeout.as_millis().try_into() or MOSQ_ERR_INVAL, returned at once without
\* a native call; otherwise the thread blocks in mosquitto_loop_forever.
loop_until_explicitly_disconnected(t, timeout) ==
    /\ calls < MaxCalls
    /\ lpc[t] = "idle"
    /\ calls' = calls + 1
    /\ IF fits_c_int(as_millis(timeout))
       THEN /\ step' = "loop_until_explicitly_disconnected"
            /\ mosquitto_loop_forever(t)
            /\ UNCHANGED result
       ELSE /\ step' = "loop_until_explicitly_disconnected_return"
            /\ result' = Err("MOSQ_ERR_INVAL")
            /\ UNCHANGED lpc
    /\ UNCHANGED <<notSess, rc, session, userDisconnect, connParams, nativeConnectCalls,
                   connectPackets, outstanding, disconnectCalls, loopThread,
                   events, dispVars>>

\* mosquitto_loop_forever returns: the caller-driven loop ends at the next
\* safe point after an explicit disconnect.
LoopForeverReturn(t) ==
    /\ lpc[t] = "looping"
    /\ dstack = <<>>
    /\ session = "Disconnected" /\ userDisconnect
    /\ lpc' = [lpc EXCEPT ![t] = "idle"]
    /\ rc' = "Success"
    /\ result' = Error_result(rc', 0)
    /\ step' = "loop_until_explicitly_disconnected_return"
    /\ UNCHANGED <<notSess, session, userDisconnect, connParams, nativeConnectCalls,
                   connectPackets, outstanding, disconnectCalls, loopThread,
                   calls, events, dispVars>>

\* The background loop thread ends after an explicit disconnect.
LoopThreadExit ==
    /\ loopThread
    /\ dstack = <<>>
    /\ session = "Disconnected" /\ userDisconnect
    /\ loopThread' = FALSE
    /\ step' = "loop_thread_exit"
    /\ UNCHANGED <<notSess, rc, result, session, userDisconnect, connParams,
                   nativeConnectCalls, connectPackets, outstanding,
                   disconnectCalls, lpc, calls, events, dispVars>>

(***************************************************************************)
(* Network events, handled by the active loop, which raises the native     *)
(* callback; the wrapper's callback invokes the user handler.              *)
(***************************************************************************)
ConnackCodes == {0, 5}        \* accepted; refused (not authorised)
ConnLost == 7                 \* lib.rs:22  MOSQ_ERR_CONN_LOST
TimedOut == 27                \* lib.rs:42  MOSQ_ERR_TIMEOUT
ServerGone == 139             \* a DISCONNECT reason code sent by the broker

\* The loop's thread handles the next event once the callback of the last
\* has returned.
LoopEvent == LoopActive /\ events < MaxEvents /\ ~panicked /\ dstack = <<>>

\* Connecting --CONNACK(success)--> Connected;
\* Connecting --CONNACK(failure)--> Disconnected.
RecvConnack(code) ==
    /\ LoopEvent
    /\ session = "Connecting"
    /\ session' = IF code = 0 THEN "Connected" ELSE "Disconnected"
    /\ outstanding' = 0
    /\ step' = IF code = 0 THEN "connack_ok" ELSE "connack_fail"
    /\ Dispatch(EvConnect(code))
    /\ events' = events + 1
    /\ UNCHANGED <<libRest, delivVars, rc, result, userDisconnect, connParams, nativeConnectCalls,
                   connectPackets, disconnectCalls, loopThread, lpc, calls>>

\* Connecting --timeout--> Disconnected.
ConnectTimeout ==
    /\ LoopEvent
    /\ session = "Connecting"
    /\ session' = "Disconnected"
    /\ outstanding' = 0
    /\ step' = "connect_timeout"
    /\ Dispatch(EvDisconnect(TimedOut))
    /\ events' = events + 1
    /\ UNCHANGED <<libRest, delivVars, rc, result, userDisconnect, connParams, nativeConnectCalls,
                   connectPackets, disconnectCalls, loopThread, lpc, calls>>

\* Disconnecting: the loop writes the DISCONNECT packet once the packets
\* queued before it are written, closes, and resolves every delivery still
\* pending with a Disconnected outcome (specification 5, Cancellation).
SendDisconnect ==
    /\ LoopEvent
    /\ session = "Disconnecting"
    /\ outQueue # <<>> /\ Head(outQueue).type = "DISCONNECT"
    /\ session' = "Disconnected"
    /\ wire' = Append(wire, Head(outQueue))
    /\ outQueue' = Tail(outQueue)
    /\ outcomes' = outcomes \o Resolved(outbound, "Disconnected")
    /\ outbound' = <<>>
    /\ step' = "send_disconnect"
    /\ Dispatch(EvDisconnect(0))
    /\ events' = events + 1
    /\ UNCHANGED <<libRest, mid, callQos, callArgs, lastMid, inbound, report, pubCalls,
                   netEvents, issued, nativeCalls>>
    /\ UNCHANGED <<rc, result, userDisconnect, connParams, nativeConnectCalls,
                   connectPackets, outstanding, disconnectCalls, loopThread,
                   lpc, calls>>

\* Connected --DISCONNECT received--> Disconnected: the operations under way
\* are abandoned with a Disconnected outcome (specification 7).
RecvDisconnect ==
    /\ LoopEvent
    /\ session = "Connected"
    /\ session' = "Disconnected"
    /\ outQueue' = <<>>
    /\ outcomes' = outcomes \o Resolved(outbound, "Disconnected")
    /\ outbound' = <<>>
    /\ step' = "recv_disconnect"
    /\ Dispatch(EvDisconnect(ServerGone))
    /\ events' = events + 1
    /\ UNCHANGED <<libRest, mid, callQos, callArgs, lastMid, wire, inbound, report, pubCalls,
                   netEvents, issued, nativeCalls>>
    /\ UNCHANGED <<rc, result, userDisconnect, connParams, nativeConnectCalls,
                   connectPackets, outstanding, disconnectCalls, loopThread,
                   lpc, calls>>

\* A socket error forces the session to Disconnected; the unresolved
\* deliveries are preserved if clean-session is false, else discarded
\* (specification 4.3, 7).  The packets not yet written are dropped with the
\* socket.
SocketError ==
    /\ LoopEvent
    /\ session \in {"Connected", "Disconnecting"}
    /\ session' = "Disconnected"
    /\ outQueue' = <<>>
    /\ outbound' = IF clean_session[1] THEN <<>> ELSE outbound
    /\ step' = "socket_error"
    /\ Dispatch(EvDisconnect(ConnLost))
    /\ events' = events + 1
    /\ UNCHANGED <<libRest, mid, callQos, callArgs, lastMid, wire, inbound, report, pubCalls,
                   netEvents, issued, nativeCalls, outcomes>>
    /\ UNCHANGED <<rc, result, userDisconnect, connParams, nativeConnectCalls,
                   connectPackets, outstanding, disconnectCalls, loopThread,
                   lpc, calls>>

Hosts == {<<1>>, <<1, 0>>}           \* a host name, and one with an embedded NUL
BindAddresses == {None, Some(<<2>>), Some(<<0>>)}
Duration(secs, nanos) == [secs |-> secs, nanos |-> nanos]
\* half a second; five seconds; 2^31 seconds
KeepAlives == {Duration(Wide(0, 0), 500000000), Duration(Wide(0, 5), 0),
               Duration(Wide(1, 0), 0)}
\* 100 ms; 2^31 - 1 ms; 2^31 ms
Timeouts == {Duration(Wide(0, 0), 100000000), Duration(Wide(0, 2147483), 647000000),
             Duration(Wide(0, 2147483), 648000000)}

(***************************************************************************)
(* The delivery tracker of the native library (specification 4.4) and the  *)
(* wrapper's publish and subscribe (lowlevel.rs:257-296).                  *)
(*                                                                         *)
(* Strings are sequences of character codes: 0 is NUL, 1 a letter, 2 the   *)
(* wildcard '+', 3 the wildcard '#'.                                       *)
(***************************************************************************)
MaxPayload == 268435455      \* the largest payload of one PUBLISH

Delivery(kind, m, q, retain, stage) ==
    [kind |-> kind, mid |-> m, qos |-> q, retain |-> retain, stage |-> stage,
     retries |-> 0, sent |-> FALSE]

NoArgs == [topic |-> <<>>, len |-> Wide(0, 0)]

NoReport == [mid |-> 0, outcome |-> "none"]

DelivInit ==
    /\ mid = 0
    /\ callQos = "none"
    /\ callArgs = NoArgs
    /\ lastMid = 0
    /\ outbound = <<>>
    /\ outQueue = <<>>
    /\ wire = <<>>
    /\ inbound = [m \in 1..MaxMid |-> [open |-> FALSE, received |-> 0, base |-> 0]]
    /\ report = NoReport
    /\ pubCalls = 0
    /\ netEvents = 0
    /\ issued = <<>>
    /\ nativeCalls = 0
    /\ outcomes = <<>>

\* The identifiers of the unresolved outbound deliveries.
InUse == {outbound[i].mid : i \in DOMAIN outbound}

\* The next identifier: the counter advances over 1..MaxMid, wraps, never
\* yields zero and skips the identifiers still in use.
mosquitto__mid_generate(last, inuse) ==
    LET cand(k) == ((last + k - 1) % MaxMid) + 1
        k == CHOOSE n \in 1..MaxMid :
                 /\ cand(n) \notin inuse
                 /\ \A j \in 1..(n - 1) : cand(j) \in inuse
    IN  cand(k)

\* validate_publish_topic: not empty, no wildcard characters.
validate_publish_topic(topic) ==
    Len(topic) > 0 /\ \A i \in 1..Len(topic) : topic[i] \notin {2, 3}

\* validate_subscribe_filter: not empty.
validate_subscribe_filter(pattern) == Len(pattern) > 0

Remove(seq, i) == SubSeq(seq, 1, i - 1) \o SubSeq(seq, i + 1, Len(seq))

\* sys::mosquitto_publish: validates, then enqueues and returns at once with
\* the assigned identifier.  A QoS0 delivery is resolved immediately and
\* needs no identifier: the native code may or may not give it one (useId).
mosquitto_publish(topic, payloadlen, q, retain) ==
    \E useId \in (IF q = 0 THEN BOOLEAN ELSE {TRUE}) :
    /\ nativeCalls' = nativeCalls + 1
    /\ IF ~validate_publish_topic(topic) \/ payloadlen > MaxPayload \/ q \notin 0..2
       THEN /\ rc' = "InvalidArgument"
            /\ mid' = 0
            /\ UNCHANGED <<lastMid, outbound, outQueue>>
       ELSE IF session # "Connected"
       THEN /\ rc' = "NotConnected"
            /\ mid' = 0
            /\ UNCHANGED <<lastMid, outbound, outQueue>>
       ELSE IF q = 0 /\ ~useId
       THEN /\ rc' = "Success"
            /\ mid' = 0
            /\ outQueue' = Append(outQueue, Packet("PUBLISH", 0, FALSE, 0, retain))
            /\ UNCHANGED <<lastMid, outbound>>
       ELSE LET m == mosquitto__mid_generate(lastMid, InUse)
            IN  /\ rc' = "Success"
                /\ mid' = m
                /\ lastMid' = m
                /\ outbound' = IF q = 0 THEN outbound
                               ELSE Append(outbound,
                                           Delivery("publish", m, q, retain,
                                                    IF q = 1 THEN "wait_puback"
                                                    ELSE "wait_pubrec"))
                /\ outQueue' = Append(outQueue, Packet("PUBLISH", m, FALSE, q, retain))

\* sys::mosquitto_subscribe: the same identifier assignment, one SUBACK awaited.
mosquitto_subscribe(pattern, q) ==
    /\ nativeCalls' = nativeCalls + 1
    /\ IF ~validate_subscribe_filter(pattern) \/ q \notin 0..2
       THEN /\ rc' = "InvalidArgument"
            /\ mid' = 0
            /\ UNCHANGED <<lastMid, outbound, outQueue>>
       ELSE IF session # "Connected"
       THEN /\ rc' = "NotConnected"
            /\ mid' = 0
            /\ UNCHANGED <<lastMid, outbound, outQueue>>
       ELSE LET m == mosquitto__mid_generate(lastMid, InUse)
            IN  /\ rc' = "Success"
                /\ mid' = m
                /\ lastMid' = m
                /\ outbound' = Append(outbound,
                                      Delivery("subscribe", m, q, FALSE, "wait_suback"))
                /\ outQueue' = Append(outQueue, Packet("SUBSCRIBE", m, FALSE, q, FALSE))

\* A slip that returns the local's initial value instead of the identifier
\* the native call wrote.
publish_ReturnsInitialMid(topic, payload, qos, retain) ==
    /\ step' = "publish"
    /\ callQos' = qos
    /\ callArgs' = [topic |-> topic, len |-> payload.len]
    /\ IF ~cstr_ok(topic)
       THEN /\ result' = Err("NulError")
            /\ mid' = 0
            /\ UNCHANGED <<rc, lastMid, outbound, outQueue, nativeCalls>>
       ELSE IF ~fits_c_int(payload.len)
       THEN /\ result' = Err("MOSQ_ERR_PAYLOAD_SIZE")
            /\ mid' = 0
            /\ UNCHANGED <<rc, lastMid, outbound, outQueue, nativeCalls>>
       ELSE /\ mosquitto_publish(topic, payload.len.lo, QoS_as_int(qos), retain)
            /\ result' = Error_result(rc', 0)
    /\ issued' = IF result'.ok THEN Append(issued, Issued("publish", result'.val))
                 ELSE issued

\* A slip that casts the payload length (payload.len() as c_int) instead of
\* converting it: the high part of the length is cut off.
publish_LenCast(topic, payload, qos, retain) ==
    /\ step' = "publish"
    /\ callQos' = qos
    /\ callArgs' = [topic |-> topic, len |-> payload.len]
    /\ IF ~cstr_ok(topic)
       THEN /\ result' = Err("NulError")
            /\ mid' = 0
            /\ UNCHANGED <<rc, lastMid, outbound, outQueue, nativeCalls>>
       ELSE /\ mosquitto_publish(topic, payload.len.lo, QoS_as_int(qos), retain)
            /\ result' = Error_result(rc', mid')
    /\ issued' = IF result'.ok THEN Append(issued, Issued("publish", result'.val))
                 ELSE issued

\* Mosq::publish (lowlevel.rs:257-280).
publish(topic, payload, qos, retain) ==
    /\ step' = "publish"
    /\ callQos' = qos
    /\ callArgs' = [topic |-> topic, len |-> payload.len]
    /\ IF ~cstr_ok(topic)
       THEN /\ result' = Err("NulError")
            /\ mid' = 0
            /\ UNCHANGED <<rc, lastMid, outbound, outQueue, nativeCalls>>
       ELSE IF ~fits_c_int(payload.len)
       THEN /\ result' = Err("MOSQ_ERR_PAYLOAD_SIZE")
            /\ mid' = 0
            /\ UNCHANGED <<rc, lastMid, outbound, outQueue, nativeCalls>>
       ELSE /\ mosquitto_publish(topic, payload.len.lo, QoS_as_int(qos), retain)
            /\ result' = Error_result(rc', mid')
    /\ issued' = IF result'.ok THEN Append(issued, Issued("publish", result'.val))
                 ELSE issued

\* Mosq::subscribe (lowlevel.rs:290-296).
subscribe(pattern, qos) ==
    /\ step' = "subscribe"
    /\ callQos' = qos
    /\ callArgs' = [topic |-> pattern, len |-> Wide(0, 0)]
    /\ IF ~cstr_ok(pattern)
       THEN /\ result' = Err("NulError")
            /\ mid' = 0
            /\ UNCHANGED <<rc, lastMid, outbound, outQueue, nativeCalls>>
       ELSE /\ mosquitto_subscribe(pattern, QoS_as_int(qos))
            /\ result' = Error_result(rc', mid')
    /\ issued' = IF result'.ok THEN Append(issued, Issued("subscribe", result'.val))
                 ELSE issued

\* What a call made on the connected client from an application thread
\* leaves alone.
CanPublish == pubCalls < MaxPublish /\ Cardinality(InUse) < MaxMid /\ ~panicked

AppPublish(topic, payload, qos, retain) ==
    /\ CanPublish
    /\ publish(topic, payload, qos, retain)
    /\ pubCalls' = pubCalls + 1
    /\ UNCHANGED <<wire, inbound, report, netEvents, outcomes, dispVars, notDeliv>>

AppSubscribe(pattern, qos) ==
    /\ CanPublish
    /\ subscribe(pattern, qos)
    /\ pubCalls' = pubCalls + 1
    /\ UNCHANGED <<wire, inbound, report, netEvents, outcomes, dispVars, notDeliv>>

\* The loop writes the packet at the head of the queue; the delivery the
\* packet belongs to now awaits its acknowledgement.
Awaits(d, p) ==
    /\ d.mid = p.mid
    /\ \/ p.type = "PUBLISH" /\ d.stage \in {"wait_puback", "wait_pubrec"}
       \/ p.type = "PUBREL" /\ d.stage = "wait_pubcomp"
       \/ p.type = "SUBSCRIBE" /\ d.stage = "wait_suback"

LoopWrite ==
    /\ LoopActive
    /\ ~panicked
    /\ dstack = <<>>          \* the loop's thread is not inside a callback
    /\ outQueue # <<>> /\ Head(outQueue).type # "DISCONNECT"
    /\ LET p == Head(outQueue)
       IN  /\ wire' = Append(wire, p)
           /\ outQueue' = Tail(outQueue)
           /\ outbound' = [i \in DOMAIN outbound |->
                              IF Awaits(outbound[i], p)
                              THEN [outbound[i] EXCEPT !.sent = TRUE]
                              ELSE outbound[i]]
           \* a QoS0 publish is complete once its packet is written:
           \* on_publish is raised (lowlevel.rs:253-256)
           /\ IF p.type = "PUBLISH" /\ p.qos = 0
              THEN Dispatch(EvPublish(p.mid))
              ELSE UNCHANGED <<dispVars, destroyCalls>>
    /\ step' = "loop_write"
    /\ UNCHANGED <<rc, result, mid, callQos, callArgs, lastMid, inbound, report, pubCalls,
                   netEvents, issued, nativeCalls, outcomes, libRest, sessVars>>

NetEvent ==
    LoopActive /\ netEvents < MaxNet /\ ~panicked /\ session = "Connected" /\ dstack = <<>>

\* QoS1: PUBLISH -> PUBACK resolves the delivery; on_publish is raised.
RecvPuback(i) ==
    /\ NetEvent
    /\ i \in DOMAIN outbound
    /\ outbound[i].stage = "wait_puback" /\ outbound[i].sent
    /\ outbound' = Remove(outbound, i)
    /\ report' = [mid |-> outbound[i].mid, outcome |-> "Delivered"]
    /\ step' = "puback"
    /\ Dispatch(EvPublish(outbound[i].mid))
    /\ netEvents' = netEvents + 1
    /\ UNCHANGED <<rc, result, mid, callQos, callArgs, lastMid, outQueue, wire, inbound,
                   pubCalls, issued, nativeCalls, outcomes, libRest, sessVars>>

\* QoS2: PUBLISH -> PUBREC -> send PUBREL.
RecvPubrec(i) ==
    /\ NetEvent
    /\ i \in DOMAIN outbound
    /\ outbound[i].stage = "wait_pubrec" /\ outbound[i].sent
    /\ outbound' = [outbound EXCEPT ![i].stage = "wait_pubcomp", ![i].retries = 0,
                                    ![i].sent = FALSE]
    /\ outQueue' = Append(outQueue, Packet("PUBREL", outbound[i].mid, FALSE, 0, FALSE))
    /\ step' = "pubrec"
    /\ netEvents' = netEvents + 1
    /\ UNCHANGED <<rc, result, mid, callQos, callArgs, lastMid, wire, inbound, report,
                   pubCalls, issued, nativeCalls, outcomes, dispVars, notDeliv>>

\* QoS2: PUBREL -> PUBCOMP resolves the delivery; on_publish is raised.
RecvPubcomp(i) ==
    /\ NetEvent
    /\ i \in DOMAIN outbound
    /\ outbound[i].stage = "wait_pubcomp" /\ outbound[i].sent
    /\ outbound' = Remove(outbound, i)
    /\ report' = [mid |-> outbound[i].mid, outcome |-> "Delivered"]
    /\ step' = "pubcomp"
    /\ Dispatch(EvPublish(outbound[i].mid))
    /\ netEvents' = netEvents + 1
    /\ UNCHANGED <<rc, result, mid, callQos, callArgs, lastMid, outQueue, wire, inbound,
                   pubCalls, issued, nativeCalls, outcomes, libRest, sessVars>>

\* SUBSCRIBE -> SUBACK resolves the request; on_subscribe is raised with the
\* granted values of the SUBACK payload.
RecvSuback(i, granted) ==
    /\ NetEvent
    /\ i \in DOMAIN outbound
    /\ outbound[i].stage = "wait_suback" /\ outbound[i].sent
    /\ outbound' = Remove(outbound, i)
    /\ report' = [mid |-> outbound[i].mid, outcome |-> "Subscribed"]
    /\ step' = "suback"
    /\ Dispatch(EvSubscribe(outbound[i].mid, granted))
    /\ netEvents' = netEvents + 1
    /\ UNCHANGED <<rc, result, mid, callQos, callArgs, lastMid, outQueue, wire, inbound,
                   pubCalls, issued, nativeCalls, outcomes, libRest, sessVars>>

\* The retry interval of a publish delivery ends without its acknowledgement:
\* the packet of its stage is resent with the DUP flag set and the same
\* identifier; beyond the retry limit DeliveryFailed is reported and the
\* session stays as it is.
RetryExpired(i) ==
    /\ i \in DOMAIN outbound
    /\ outbound[i].kind = "publish" /\ outbound[i].sent
    /\ LET d == outbound[i]
       IN  IF d.retries < RetryLimit
           THEN /\ outbound' = [outbound EXCEPT ![i].retries = d.retries + 1,
                                                ![i].sent = FALSE]
                /\ outQueue' = Append(outQueue,
                                      IF d.stage = "wait_pubcomp"
                                      THEN Packet("PUBREL", d.mid, TRUE, 0, FALSE)
                                      ELSE Packet("PUBLISH", d.mid, TRUE, d.qos, d.retain))
                /\ report' = [mid |-> d.mid, outcome |-> "Resent"]
                /\ step' = "retry"
                /\ UNCHANGED outcomes
           ELSE /\ outbound' = Remove(outbound, i)
                /\ outQueue' = outQueue
                /\ report' = [mid |-> d.mid, outcome |-> "DeliveryFailed"]
                /\ outcomes' = outcomes \o Resolved(<<d>>, "DeliveryFailed")
                /\ step' = "delivery_failed"
    /\ UNCHANGED <<rc, result, mid, callQos, callArgs, lastMid, wire, inbound, pubCalls,
                   issued, nativeCalls, dispVars, notDeliv>>

RetryTimeout(i) == NetEvent /\ RetryExpired(i) /\ netEvents' = netEvents + 1

\* The retry timer of the loop: it runs whenever the loop runs a connected
\* session, however many acknowledgements have come.
RetryTimer(i) ==
    /\ LoopActive /\ ~panicked /\ session = "Connected" /\ dstack = <<>>
    /\ RetryExpired(i)
    /\ UNCHANGED netEvents

InEvent ==
    LoopActive /\ netEvents < MaxIn /\ ~panicked /\ session = "Connected" /\ dstack = <<>>

\* The number of on_message invocations made so far for QoS2 messages with
\* identifier m.
OnMessageCount(m) ==
    Cardinality({i \in DOMAIN handlerLog :
                    /\ handlerLog[i].h = "on_message"
                    /\ handlerLog[i].mid = m
                    /\ handlerLog[i].qos = "ExactlyOnce"})

\* The message callbacks invoked for QoS2 messages with identifier m that
\* have not yet called the handler.
OnMessagePending(m) ==
    Cardinality({i \in DOMAIN dstack :
                    /\ dstack[i].pc = "borrow"
                    /\ dstack[i].e.kind = "message"
                    /\ dstack[i].e.mid = m
                    /\ dstack[i].e.qos = 2})

\* An inbound PUBLISH.  QoS0 and QoS1 are delivered as they come; a QoS2
\* identifier is tracked from its first PUBLISH until its PUBREL, and a
\* PUBLISH received for a tracked identifier is answered but not delivered.
RecvPublish(m, q, topic, payload, retain) ==
    /\ InEvent
    /\ netEvents' = netEvents + 1
    /\ step' = "recv_publish"
    /\ IF q = 2 /\ inbound[m].open
       THEN /\ inbound' = [inbound EXCEPT ![m].received = @ + 1]
            /\ outQueue' = Append(outQueue, Packet("PUBREC", m, FALSE, 0, FALSE))
            /\ UNCHANGED <<dispVars, destroyCalls>>
       ELSE /\ inbound' = IF q = 2
                          THEN [inbound EXCEPT ![m] = [open |-> TRUE, received |-> 1,
                                                       base |-> OnMessageCount(m)]]
                          ELSE inbound
            /\ outQueue' = CASE q = 2 -> Append(outQueue, Packet("PUBREC", m, FALSE, 0, FALSE))
                             [] q = 1 -> Append(outQueue, Packet("PUBACK", m, FALSE, 0, FALSE))
                             [] OTHER -> outQueue
            /\ Dispatch(EvMessage(IF q = 0 THEN 0 ELSE m, topic, payload, q, retain))
    /\ UNCHANGED <<rc, result, mid, callQos, callArgs, lastMid, outbound, wire, report,
                   pubCalls, issued, nativeCalls, outcomes, libRest, sessVars>>

\* The PUBREL of a tracked identifier completes the exchange.
RecvPubrel(m) ==
    /\ InEvent
    /\ inbound[m].open
    /\ inbound' = [inbound EXCEPT ![m].open = FALSE]
    /\ outQueue' = Append(outQueue, Packet("PUBCOMP", m, FALSE, 0, FALSE))
    /\ step' = "recv_pubrel"
    /\ netEvents' = netEvents + 1
    /\ UNCHANGED <<rc, result, mid, callQos, callArgs, lastMid, outbound, wire, report,
                   pubCalls, issued, nativeCalls, outcomes, dispVars, notDeliv>>

(***************************************************************************)
(* A callback step by step: the native library invokes the registered      *)
(* callback on the loop's thread, the handler runs and may call publish or *)
(* subscribe on the transient client, the callback returns.                *)
(***************************************************************************)
\* The handler of the innermost callback is running.
InHandler == dstack # <<>> /\ dstack[Len(dstack)].pc = "handler"

\* The callbacks the native library has invoked so far.
Raised ==
    Len(eventLog) + (IF dstack # <<>> /\ dstack[Len(dstack)].pc = "borrow" THEN 1 ELSE 0)

\* The object whose address is registered as the native user data
\* (Arc::as_ptr(&cb), lowlevel.rs:78-81, 98-102) and which the callbacks
\* resolve (resolve_self, lowlevel.rs:375-377).
UserData == "callbacks"

\* The cb field of a Mosq returned by a constructor (lowlevel.rs:87, 107) and
\* of the transient client of a callback (lowlevel.rs:363).
constructed_cb == Some(UserData)
transient_cb == None

\* The native library invokes the callback registered for e, at the top
\* level or from inside a call the running handler made.
CallbackEnter(e) ==
    /\ LoopActive
    /\ ~panicked
    /\ Raised <= MaxRaised
    /\ Len(dstack) < MaxDepth
    /\ dstack # <<>> => InHandler /\ dstack[Len(dstack)].ops > 0
    /\ Dispatch(e)
    /\ step' = "callback"
    /\ UNCHANGED <<rc, result, delivVars, libRest, sessVars>>

\* cb.cb.borrow() goes on with the flag it read: it panics if that is
\* negative, and the panic unwinds through with_transient_client; else it
\* writes the flag plus one, and the callback invokes the handler, or (the
\* message callback, line 428) ends the process where its slice cannot be
\* made.  The event is logged here, with the handler's invocation.
CallbackBorrow ==
    /\ dstack # <<>>
    /\ dstack[Len(dstack)].pc = "borrow"
    /\ ~panicked
    /\ LET f == dstack[Len(dstack)]
       IN  /\ eventLog' = Append(eventLog, f.e)
           /\ \E o \in CallbackBegin(f.e, f.read) :
                  /\ set_callbacks[f.e.kind] = "CallbackWrapper::subscribe"
                         => o.end # "abort"
                  /\ IF o.end = "invoke"
                     THEN /\ cell' = o.flag
                          /\ handlerLog' = handlerLog \o o.calls
                          /\ dstack' = [dstack EXCEPT ![Len(dstack)].pc = "handler"]
                          /\ step' = "callback_invoke"
                          /\ UNCHANGED <<panicked, destroyCalls>>
                     ELSE IF o.end = "panic"
                     THEN /\ panicked' = TRUE
                          /\ with_transient_client_unwind
                          /\ dstack' = [dstack EXCEPT ![Len(dstack)].pc = "ended"]
                          /\ step' = "callback_panic"
                          /\ UNCHANGED <<cell, handlerLog>>
                     ELSE /\ panicked' = TRUE
                          /\ cell' = o.flag
                          /\ dstack' = [dstack EXCEPT ![Len(dstack)].pc = "ended"]
                          /\ step' = "callback_abort"
                          /\ UNCHANGED <<handlerLog, destroyCalls>>
    /\ UNCHANGED <<rc, result, refs, delivVars, libRest, sessVars>>

\* The running handler calls publish on the client it was given
\* (with_transient_client, lowlevel.rs:362-366: the same native handle).
HandlerPublish(topic, payload, qos, retain) ==
    /\ InHandler
    /\ CanPublish
    /\ publish(topic, payload, qos, retain)
    /\ pubCalls' = pubCalls + 1
    /\ dstack' = [dstack EXCEPT ![Len(dstack)].ops = @ + 1]
    /\ UNCHANGED <<wire, inbound, report, netEvents, outcomes, handlerLog, eventLog,
                   cell, panicked, refs, notDeliv>>

\* The running handler calls subscribe on the client it was given.
HandlerSubscribe(pattern, qos) ==
    /\ InHandler
    /\ CanPublish
    /\ subscribe(pattern, qos)
    /\ pubCalls' = pubCalls + 1
    /\ dstack' = [dstack EXCEPT ![Len(dstack)].ops = @ + 1]
    /\ UNCHANGED <<wire, inbound, report, netEvents, outcomes, handlerLog, eventLog,
                   cell, panicked, refs, notDeliv>>

\* The handler returns, and the callback's Ref is dropped: Drop for Ref
\* reads the flag ...
CallbackReturn ==
    /\ InHandler
    /\ ~panicked
    /\ dstack' = [dstack EXCEPT ![Len(dstack)].pc = "drop", ![Len(dstack)].read = cell]
    /\ step' = "handler_return"
    /\ UNCHANGED <<rc, result, handlerLog, eventLog, cell, panicked, refs, delivVars,
                   notDeliv>>

\* ... and writes the flag minus one.  The transient client is forgotten
\* (std::mem::forget, lowlevel.rs:365: the native handle is not destroyed)
\* and the callback returns to the native library.
CallbackExit ==
    /\ dstack # <<>>
    /\ dstack[Len(dstack)].pc = "drop"
    /\ ~panicked
    /\ cell' = RefCell_release(dstack[Len(dstack)].read)
    /\ dstack' = SubSeq(dstack, 1, Len(dstack) - 1)
    /\ step' = "callback_return"
    /\ UNCHANGED <<rc, result, handlerLog, eventLog, panicked, refs, delivVars,
                   notDeliv>>

\* Mosq::get_callbacks (lowlevel.rs:311-317) called by thread t on the Mosq
\* a constructor returned, which the threads share (unsafe impl Sync,
\* lowlevel.rs:72): self.cb is Some, and RefCell::borrow reads the borrow
\* flag of the callback object.  The flag is a plain Cell: its read and its
\* write are two steps, and the loop's thread may run between them.
get_callbacks(t) ==
    /\ mosq[1] = "live"
    /\ refs[t].pc = "idle"
    /\ refs[t].held < MaxRefs
    /\ refs[t].gets < MaxGets
    /\ constructed_cb.some
    /\ refs' = [refs EXCEPT ![t].pc = "borrow", ![t].read = cell, ![t].gets = @ + 1]
    /\ step' = "get_callbacks"
    /\ UNCHANGED <<rc, result, handlerLog, eventLog, dstack, cell, panicked,
                   delivVars, notDeliv>>

\* RefCell::borrow goes on with the flag it read: it panics ("already
\* mutably borrowed") if that is negative, else writes the flag plus one
\* and returns the Ref.
get_callbacks_return(t) ==
    /\ refs[t].pc = "borrow"
    /\ LET b == RefCell_borrow(refs[t].read)
       IN  IF b.ok
           THEN /\ cell' = b.flag
                /\ refs' = [refs EXCEPT ![t].pc = "idle", ![t].held = @ + 1,
                                        ![t].target = constructed_cb]
                /\ step' = "get_callbacks_return"
           ELSE /\ refs' = [refs EXCEPT ![t].pc = "panicked"]
                /\ step' = "get_callbacks_panic"
                /\ UNCHANGED cell
    /\ UNCHANGED <<rc, result, handlerLog, eventLog, dstack, panicked,
                   delivVars, notDeliv>>

\* Thread t drops a Ref it holds: Drop for Ref reads the flag ...
Ref_drop(t) ==
    /\ refs[t].pc = "idle"
    /\ refs[t].held > 0
    /\ refs' = [refs EXCEPT ![t].pc = "drop", ![t].read = cell]
    /\ step' = "ref_drop"
    /\ UNCHANGED <<rc, result, handlerLog, eventLog, dstack, cell, panicked,
                   delivVars, notDeliv>>

\* ... and writes the flag minus one.
Ref_drop_return(t) ==
    /\ refs[t].pc = "drop"
    /\ cell' = refs[t].read - 1
    /\ refs' = [refs EXCEPT ![t].pc = "idle", ![t].held = @ - 1]
    /\ step' = "ref_drop_return"
    /\ UNCHANGED <<rc, result, handlerLog, eventLog, dstack, panicked,
                   delivVars, notDeliv>>

\* The running handler calls get_callbacks on the transient client it was
\* given: self.cb is None and expect panics (lowlevel.rs:312-314).  The
\* panic unwinds through the callback, whose Ref is dropped: Drop for Ref
\* reads the flag ...
HandlerGetCallbacks ==
    /\ InHandler
    /\ ~panicked
    /\ ~transient_cb.some
    /\ dstack' = [dstack EXCEPT ![Len(dstack)].pc = "unwind", ![Len(dstack)].read = cell]
    /\ step' = "handler_get_callbacks_panic"
    /\ UNCHANGED <<rc, result, handlerLog, eventLog, cell, panicked, refs, delivVars,
                   libRest, sessVars, destroyCalls>>

\* ... and writes the flag minus one; then the unwinding goes through
\* with_transient_client, which drops the transient client.
CallbackUnwind ==
    /\ dstack # <<>>
    /\ dstack[Len(dstack)].pc = "unwind"
    /\ ~panicked
    /\ cell' = RefCell_release(dstack[Len(dstack)].read)
    /\ with_transient_client_unwind
    /\ panicked' = TRUE
    /\ dstack' = [dstack EXCEPT ![Len(dstack)].pc = "ended"]
    /\ step' = "callback_unwind"
    /\ UNCHANGED <<rc, result, handlerLog, eventLog, refs, delivVars, libRest,
                   sessVars>>

\* The events the native library raises: every kind, with the values the
\* handlers are handed; a message with a payload of no bytes comes with a
\* pointer to no bytes or with a null pointer.
RaisedEvents ==
    {EvConnect(5), EvDisconnect(ConnLost), EvPublish(1), EvSubscribe(2, <<1, 0>>),
     EvMessage(0, <<1>>, <<>>, 0, FALSE),
     [EvMessage(0, <<1>>, <<>>, 0, FALSE) EXCEPT !.null = TRUE],
     EvMessage(2, <<1>>, <<7, 8>>, 2, TRUE)}

\* The publish calls made: one valid message per QoS level, and one call
\* for each error a call can end in (a NUL in the topic, a wildcard in the
\* topic, a payload of 2^31 bytes).
PublishArgs(topic, len, qos, retain) ==
    [topic |-> topic, payload |-> [len |-> len], qos |-> qos, retain |-> retain]
PublishCalls ==
    {PublishArgs(<<1>>, Wide(0, 0), "AtMostOnce", FALSE),
     PublishArgs(<<1>>, Wide(0, 4), "AtLeastOnce", TRUE),
     PublishArgs(<<1>>, Wide(0, 4), "ExactlyOnce", FALSE),
     PublishArgs(<<1, 0>>, Wide(0, 4), "AtLeastOnce", FALSE),
     PublishArgs(<<1, 2>>, Wide(0, 4), "ExactlyOnce", FALSE),
     PublishArgs(<<1>>, Wide(1, 0), "AtLeastOnce", FALSE)}
SubscribeCalls ==
    {[pattern |-> <<1, 3>>, qos |-> "AtLeastOnce"],
     [pattern |-> <<1, 0>>, qos |-> "AtMostOnce"],
     [pattern |-> <<>>, qos |-> "ExactlyOnce"]}
\* The inbound messages: one per QoS level.
InMessages ==
    {[qos |-> 0, topic |-> <<1>>, payload |-> <<>>, retain |-> FALSE],
     [qos |-> 1, topic |-> <<1>>, payload |-> <<7, 8>>, retain |-> TRUE],
     [qos |-> 2, topic |-> <<1>>, payload |-> <<7>>, retain |-> FALSE]}
GrantedLists == {<<0>>, <<128>>}     \* granted QoS0; the SUBACK failure code

\* The session: the application's calls, the loop and the broker's answers.
SessNext ==
    \/ \E h \in Hosts, k \in KeepAlives, b \in BindAddresses : connect(h, k, b)
    \/ \E h \in Hosts, k \in KeepAlives, b \in BindAddresses : connect_non_blocking(h, k, b)
    \/ reconnect
    \/ disconnect
    \/ start_loop_thread
    \/ \E f \in BOOLEAN : stop_loop_thread(f)
    \/ \E t \in Threads, d \in Timeouts : loop_until_explicitly_disconnected(t, d)
    \/ \E t \in Threads : LoopForeverReturn(t)
    \/ LoopThreadExit
    \/ \E c \in ConnackCodes : RecvConnack(c)
    \/ ConnectTimeout
    \/ SendDisconnect
    \/ RecvDisconnect
    \/ SocketError
    \/ CallbackBorrow
    \/ CallbackReturn
    \/ CallbackExit

DelivNext ==
    \/ \E c \in PublishCalls : AppPublish(c.topic, c.payload, c.qos, c.retain)
    \/ \E c \in SubscribeCalls : AppSubscribe(c.pattern, c.qos)
    \/ LoopWrite
    \/ \E i \in 1..MaxMid : RecvPuback(i)
    \/ \E i \in 1..MaxMid : RecvPubrec(i)
    \/ \E i \in 1..MaxMid : RecvPubcomp(i)
    \/ \E i \in 1..MaxMid, g \in GrantedLists : RecvSuback(i, g)
    \/ \E i \in 1..MaxMid : RetryTimeout(i)
    \/ CallbackBorrow
    \/ CallbackReturn
    \/ CallbackExit

\* The calls a handler makes, and the call an application thread makes
\* meanwhile.
HandlerPublishCalls == {PublishArgs(<<1>>, Wide(0, 4), "AtLeastOnce", TRUE)}
HandlerSubscribeCalls == {[pattern |-> <<1, 3>>, qos |-> "AtLeastOnce"]}
AppPublishCalls == {PublishArgs(<<1>>, Wide(0, 4), "ExactlyOnce", FALSE)}

\* Callbacks, the calls their handlers make and the publish calls of the
\* application's threads.
HandlerNext ==
    \/ \E e \in RaisedEvents : CallbackEnter(e)
    \/ CallbackBorrow
    \/ \E c \in HandlerPublishCalls :
           HandlerPublish(c.topic, c.payload, c.qos, c.retain)
    \/ \E c \in HandlerSubscribeCalls : HandlerSubscribe(c.pattern, c.qos)
    \/ CallbackReturn
    \/ CallbackExit
    \/ \E c \in AppPublishCalls : AppPublish(c.topic, c.payload, c.qos, c.retain)
    \/ LoopWrite

\* The inbound half: the packets the broker sends of its own accord.
InNext ==
    \/ LoopWrite
    \/ \E m \in 1..MaxMid, c \in InMessages :
           RecvPublish(m, c.qos, c.topic, c.payload, c.retain)
    \/ \E m \in 1..MaxMid : RecvPubrel(m)
    \/ CallbackBorrow
    \/ CallbackReturn
    \/ CallbackExit

(***************************************************************************)
(* Specifications.                                                         *)
(***************************************************************************)
Init == LibInit /\ SessInit /\ ApiInit /\ DispInit /\ DelivInit

\* The state after thread 1 has constructed the client with Mosq::with_id.
Constructed(o, clean) ==
    /\ INIT = "Complete"
    /\ libInitCalls = 1
    /\ libInitReturned = 1
    /\ libCleanupCalls = 0
    /\ newCalls = 1
    /\ versionCalls = 0
    /\ destroyCalls = 0
    /\ pc = [t \in Threads |-> "idle"]
    /\ op = [t \in Threads |-> IF t = 1 THEN o ELSE "none"]
    /\ opsDone = [t \in Threads |-> IF t = 1 THEN 1 ELSE 0]
    /\ clean_session = [t \in Threads |-> t = 1 /\ clean]
    /\ mosq = [t \in Threads |-> IF t = 1 THEN "live" ELSE "none"]
    /\ registered = [t \in Threads |-> IF t = 1 THEN DOMAIN set_callbacks ELSE {}]
    /\ cbArc = [t \in Threads |-> IF t = 1 THEN 1 ELSE 0]
    /\ created = Created(IF o = "with_id" THEN <<1>> ELSE <<>>, FALSE, "Ok")
    /\ vers = NoVersion
    /\ text = <<>>

LibConstructed == Constructed("with_id", FALSE)

ClientInit == LibConstructed /\ SessInit /\ ApiInit /\ DispInit /\ DelivInit

\* Library initialisation and construction, by several threads.
SpecLib == Init /\ [][LibNext]_vars

\* One constructed client: its session, its loops and the network.
SpecSession == ClientInit /\ [][SessNext]_vars

\* The client constructed by o after connect and the broker's CONNACK, its
\* loop run by the background thread (start_loop_thread) or by the last
\* thread (loop_until_explicitly_disconnected).
ConnectedWith(o, clean, background) ==
    /\ Constructed(o, clean)
    /\ session = "Connected"
    /\ userDisconnect = FALSE
    /\ connParams = StoredParams(5)
    /\ nativeConnectCalls = 1
    /\ connectPackets = 1
    /\ outstanding = 0
    /\ disconnectCalls = 0
    /\ loopThread = background
    /\ lpc = [t \in Threads |->
                 IF ~background /\ t = NThreads THEN "looping" ELSE "idle"]
    /\ calls = 2
    /\ events = 1
    /\ rc = "Success"
    /\ result = Ok(0)
    /\ step = "callback_return"
    /\ handlerLog = CallbackWrapper_connect(EvConnect(0))
    /\ eventLog = <<EvConnect(0)>>
    /\ dstack = <<>>
    /\ cell = 0
    /\ panicked = FALSE
    /\ refs = NoRefs
    /\ DelivInit

\* The client after with_id, connect, start_loop_thread and the CONNACK.
ConnectedInit == ConnectedWith("with_id", FALSE, TRUE)

\* A connected client: publish, subscribe and the outbound handshakes.
SpecDelivery == ConnectedInit /\ [][DelivNext]_vars

\* A connected client: the messages it receives.
SpecInbound == ConnectedInit /\ [][InNext]_vars

\* A connected client: the callbacks and what their handlers do.
SpecDispatch == ConnectedInit /\ [][HandlerNext]_vars

\* The application disconnects the client, once.
DisconnectOnce == disconnectCalls = 0 /\ disconnect

\* A connected client with deliveries under way is disconnected or its
\* background loop is stopped.
CancelPublishCalls == {PublishArgs(<<1>>, Wide(0, 4), "AtLeastOnce", FALSE),
                       PublishArgs(<<1>>, Wide(0, 0), "AtMostOnce", FALSE)}

CancelNext ==
    \/ \E c \in CancelPublishCalls : AppPublish(c.topic, c.payload, c.qos, c.retain)
    \/ LoopWrite
    \/ \E i \in 1..MaxMid : RecvPuback(i)
    \/ DisconnectOnce
    \/ \E f \in BOOLEAN : stop_loop_thread(f)
    \/ SendDisconnect
    \/ \E t \in Threads : LoopForeverReturn(t)
    \/ LoopThreadExit
    \/ CallbackBorrow
    \/ CallbackReturn
    \/ CallbackExit

CancelInit == \E b \in BOOLEAN : ConnectedWith("with_id", FALSE, b)

\* The loop's thread is scheduled: while the loop is active it runs the
\* callbacks it has invoked (their handlers return), writes what is queued, sends the DISCONNECT when its turn has come and returns at
\* the safe point.  The application's calls and the broker's
\* acknowledgements may never come.
CancelFairness ==
    /\ WF_vars(CallbackBorrow) /\ WF_vars(CallbackReturn) /\ WF_vars(CallbackExit)
    /\ WF_vars(LoopWrite)
    /\ WF_vars(SendDisconnect)
    /\ WF_vars(LoopThreadExit)
    /\ \A t \in Threads : WF_vars(LoopForeverReturn(t))

SpecCancel == CancelInit /\ [][CancelNext]_vars /\ CancelFairness

\* A connected client: every publish made runs to its completion.  The
\* broker may or may not acknowledge; the loop's thread is scheduled, so it
\* runs the callbacks it has invoked, writes what is queued, its retry timers
\* expire and a DISCONNECT is sent.
\* The application's publish calls, in the order it makes them.
CompleteCalls ==
    <<PublishArgs(<<1>>, Wide(0, 4), "AtLeastOnce", FALSE),
      PublishArgs(<<1>>, Wide(0, 0), "AtMostOnce", FALSE),
      PublishArgs(<<1>>, Wide(0, 4), "AtLeastOnce", TRUE)>>

PublishInTurn ==
    /\ pubCalls < Len(CompleteCalls)
    /\ LET c == CompleteCalls[pubCalls + 1]
       IN  AppPublish(c.topic, c.payload, c.qos, c.retain)

CompleteNext ==
    \/ PublishInTurn
    \/ LoopWrite
    \/ \E i \in 1..MaxMid : RecvPuback(i)
    \/ \E i \in 1..MaxMid : RetryTimer(i)
    \/ DisconnectOnce
    \/ SendDisconnect
    \/ CallbackBorrow
    \/ CallbackReturn
    \/ CallbackExit

CompleteFairness ==
    /\ WF_vars(CallbackBorrow) /\ WF_vars(CallbackReturn) /\ WF_vars(CallbackExit)
    /\ WF_vars(LoopWrite)
    /\ WF_vars(SendDisconnect)
    /\ \A i \in 1..MaxMid : WF_vars(RetryTimer(i))

SpecComplete == ConnectedInit /\ [][CompleteNext]_vars /\ CompleteFairness

\* A connected client: publish and subscribe calls with every kind of topic,
\* filter and payload length.
ValidateTopics == {<<1>>, <<>>, <<1, 0>>, <<0>>, <<1, 2>>, <<3>>, <<2, 0>>}
ValidateLens == {Wide(0, 0), Wide(0, MaxPayload), Wide(0, MaxPayload + 1),
                 Wide(0, IntMax), Wide(1, 0), Wide(3, 7)}
ValidateFilters == {<<1, 3>>, <<>>, <<2, 0, 1>>}
\* The payload lengths each topic is published with: a few bytes, more than
\* the protocol allows, and more than the native int holds.
ValidateTopicLens == {Wide(0, 4), Wide(0, MaxPayload + 1), Wide(1, 0)}

ValidateNext ==
    \/ \E t \in ValidateTopics, n \in ValidateTopicLens :
           AppPublish(t, [len |-> n], "AtMostOnce", FALSE)
    \/ \E n \in ValidateLens : AppPublish(<<1>>, [len |-> n], "AtLeastOnce", FALSE)
    \/ \E f \in ValidateFilters : AppSubscribe(f, "AtLeastOnce")
    \/ LoopWrite
    \/ CallbackBorrow
    \/ CallbackReturn
    \/ CallbackExit

SpecValidate == ConnectedInit /\ [][ValidateNext]_vars

\* A connected client, constructed by with_id (with either clean_session
\* value) or by with_auto_id, has deliveries under way when the socket fails.
SocketInit ==
    \/ \E clean \in BOOLEAN : ConnectedWith("with_id", clean, TRUE)
    \/ ConnectedWith("with_auto_id", auto_id_clean_session, TRUE)

\* The application reconnects a session it has lost.
ReconnectAfterLoss == session = "Disconnected" /\ reconnect

SocketNext ==
    \/ PublishInTurn
    \/ LoopWrite
    \/ \E i \in 1..MaxMid : RecvPuback(i)
    \/ SocketError
    \/ ReconnectAfterLoss
    \/ \E code \in ConnackCodes : RecvConnack(code)
    \/ CallbackBorrow
    \/ CallbackReturn
    \/ CallbackExit

SpecSocket == SocketInit /\ [][SocketNext]_vars

\* A connected client subscribes; the broker's SUBACK carries any list of
\* granted values (0, 1, 2, or the failure code 128).
SubackLists == {<<>>, <<0>>, <<0, 1, 2>>, <<2, 0>>, <<128>>, <<1, 128>>}

SubackNext ==
    \/ \E q \in QoSLevels : AppSubscribe(<<1, 3>>, q)
    \/ LoopWrite
    \/ \E i \in 1..MaxMid, g \in SubackLists : RecvSuback(i, g)
    \/ CallbackBorrow
    \/ CallbackReturn
    \/ CallbackExit

SpecSuback == ConnectedInit /\ [][SubackNext]_vars

\* A connected client whose Mosq is shared by the application's threads:
\* they call get_callbacks and drop the Refs while the loop's thread runs
\* callbacks, whose handlers may call get_callbacks on their client.
BorrowEvents == {EvConnect(5), EvPublish(1)}
BorrowThreads == {1, 2}  \* the application threads that call get_callbacks

BorrowNext ==
    \/ \E e \in BorrowEvents : CallbackEnter(e)
    \/ CallbackBorrow
    \/ CallbackReturn
    \/ CallbackExit
    \/ HandlerGetCallbacks
    \/ CallbackUnwind
    \/ \E t \in BorrowThreads : get_callbacks(t)
    \/ \E t \in BorrowThreads : get_callbacks_return(t)
    \/ \E t \in BorrowThreads : Ref_drop(t)
    \/ \E t \in BorrowThreads : Ref_drop_return(t)

SpecBorrow == ConnectedInit /\ [][BorrowNext]_vars

\* A connected client whose Mosq is shared by the application's threads:
\* the handlers of the callbacks publish and subscribe, callbacks are raised
\* inside those calls, and the threads call get_callbacks and drop the Refs
\* meanwhile.
ReentrantEvents == {EvPublish(1)}
ReentrantThreads == {1, 2}

ReentrantNext ==
    \/ \E e \in ReentrantEvents : CallbackEnter(e)
    \/ CallbackBorrow
    \/ \E c \in HandlerPublishCalls :
           HandlerPublish(c.topic, c.payload, c.qos, c.retain)
    \/ \E c \in HandlerSubscribeCalls : HandlerSubscribe(c.pattern, c.qos)
    \/ CallbackReturn
    \/ CallbackExit
    \/ LoopWrite
    \/ \E t \in ReentrantThreads : get_callbacks(t)
    \/ \E t \in ReentrantThreads : get_callbacks_return(t)
    \/ \E t \in ReentrantThreads : Ref_drop(t)
    \/ \E t \in ReentrantThreads : Ref_drop_return(t)

SpecReentrant == ConnectedInit /\ [][ReentrantNext]_vars

\* A connected client: operations issued by the application's threads and
\* by handlers, a disconnect among them, and the acknowledgements raised.
OrderEvents ==
    {EvPublish(1), EvPublish(2), EvSubscribe(2, <<1, 0>>),
     EvMessage(2, <<1>>, <<7, 8>>, 2, TRUE)}

OrderNext ==
    \/ \E e \in OrderEvents : CallbackEnter(e)
    \/ CallbackBorrow
    \/ \E c \in HandlerPublishCalls :
           HandlerPublish(c.topic, c.payload, c.qos, c.retain)
    \/ \E c \in HandlerSubscribeCalls : HandlerSubscribe(c.pattern, c.qos)
    \/ CallbackReturn
    \/ CallbackExit
    \/ \E c \in AppPublishCalls : AppPublish(c.topic, c.payload, c.qos, c.retain)
    \/ LoopWrite
    \/ DisconnectOnce
    \/ SendDisconnect

SpecOrder == ConnectedInit /\ [][OrderNext]_vars

\* Construction followed by use: one thread constructs the client (a failed
\* construction may be tried again), and the methods, which take &self, are
\* called on the Mosq once it exists.
ConstructThreads == {1}
ConstructOps == {"with_auto_id", "with_id"}
OwnerConnect == mosq[1] = "live" /\ connect(<<1>>, Duration(Wide(0, 5), 0), None)
OwnerStartLoop == mosq[1] = "live" /\ start_loop_thread
\* The Mosq is dropped before any method was called on it.
DropUnused == calls = 0 /\ drop(1)

ConstructNext ==
    \/ \E t \in ConstructThreads, o \in ConstructOps : CallEntry(t, o)
    \/ \E t \in ConstructThreads : init_library(t)
    \/ \E t \in ConstructThreads : call_once_return(t)
    \/ \E t \in ConstructThreads, n \in BOOLEAN : with_auto_id(t, n)
    \/ \E t \in ConstructThreads, id \in Ids, c \in BOOLEAN, n \in BOOLEAN :
           with_id(t, id, c, n)
    \/ DropUnused
    \/ OwnerConnect
    \/ OwnerStartLoop
    \/ \E c \in ConnackCodes : RecvConnack(c)
    \/ CallbackBorrow
    \/ CallbackReturn
    \/ CallbackExit

SpecConstruct == Init /\ [][ConstructNext]_vars

\* The arguments of connect and connect_non_blocking: a host name and one
\* with an embedded NUL; no bind address and one with an embedded NUL;
\* keep-alive intervals of 0.5 s, 4.999999999 s, 5.999999999 s,
\* 2^31 - 1 s, 2^31 s and 2^32 + 5 s.
ArgHosts == {<<1>>, <<1, 0>>}
ArgBindAddresses == {None, Some(<<0>>)}
ArgKeepAlives ==
    {Duration(Wide(0, 0), 500000000), Duration(Wide(0, 4), 999999999),
     Duration(Wide(0, 5), 999999999),
     Duration(Wide(0, IntMax), 0), Duration(Wide(1, 0), 0), Duration(Wide(2, 5), 0)}

\* A constructed client: connection attempts with these arguments, the
\* loop, and the broker's answer or its absence.
ConnectArgsNext ==
    \/ \E h \in ArgHosts, k \in ArgKeepAlives, b \in ArgBindAddresses : connect(h, k, b)
    \/ \E h \in ArgHosts, k \in ArgKeepAlives, b \in ArgBindAddresses :
           connect_non_blocking(h, k, b)
    \/ start_loop_thread
    \/ \E c \in ConnackCodes : RecvConnack(c)
    \/ ConnectTimeout
    \/ CallbackBorrow
    \/ CallbackReturn
    \/ CallbackExit

SpecConnectArgs == ClientInit /\ [][ConnectArgsNext]_vars

\* Granted values of a SUBACK that are none of the three levels, as native
\* ints: the failure code 128, the values next to the levels and the ends
\* of the range.
QoSInts == {0 - IntMax - 1, 0 - 1, 3, 128, IntMax}

\* The broker grants the subscribe request i the level it asked for.
GrantAsRequested(i) == i \in DOMAIN outbound /\ RecvSuback(i, <<outbound[i].qos>>)

\* Subscribe requests at each level, acknowledged with the level requested
\* or with a value that is no level.
QoSNext ==
    \/ \E q \in QoSLevels : AppSubscribe(<<1, 3>>, q)
    \/ LoopWrite
    \/ \E i \in 1..MaxMid : GrantAsRequested(i)
    \/ \E i \in 1..MaxMid, g \in QoSInts : RecvSuback(i, <<g>>)
    \/ CallbackBorrow
    \/ CallbackReturn
    \/ CallbackExit

SpecQoS == ConnectedInit /\ [][QoSNext]_vars

\* The versions a linked library may report: every combination of these
\* major, minor and revision values.
Versions ==
    [major : {0, 1, 2, 10}, minor : {0, 1, 6}, revision : {0, 9, 18}]

\* A thread asks for the version of the library and formats it.
VersionThreads == {1}
VersionNext ==
    \E t \in VersionThreads :
        \/ CallEntry(t, "lib_version")
        \/ init_library(t)
        \/ call_once_return(t)
        \/ \E v \in Versions : lib_version(t, v)
        \/ to_string(t)

SpecVersion == Init /\ [][VersionNext]_vars

\* The SUBACK and PUBLISH events whose buffers the callbacks slice: granted
\* lists and payloads of zero, one, two and three elements, with and without
\* mapped memory after the buffer, and an empty payload whose pointer is
\* null.  The counts are c_int fields (lib.rs:65-74): the last four events
\* have a count of minus one, and a count one more than the buffer holds.
SliceEvents ==
    {EvSubscribe(1, <<>>), [EvSubscribe(1, <<0>>) EXCEPT !.after = <<1, 2>>],
     EvSubscribe(2, <<2, 0>>), [EvSubscribe(2, <<1, 128, 2>>) EXCEPT !.after = <<0>>],
     EvMessage(0, <<1>>, <<>>, 0, FALSE),
     [EvMessage(0, <<1>>, <<>>, 0, FALSE) EXCEPT !.null = TRUE],
     [EvMessage(1, <<1>>, <<7>>, 1, FALSE) EXCEPT !.after = <<9>>],
     EvMessage(1, <<1>>, <<0, 255>>, 0, TRUE),
     [EvMessage(2, <<1>>, <<7, 8, 9>>, 2, TRUE) EXCEPT !.after = <<0, 1>>],
     [EvSubscribe(1, <<1, 0>>) EXCEPT !.qos_count = 0 - 1],
     [EvSubscribe(2, <<1, 0>>) EXCEPT !.qos_count = 3, !.after = <<2>>],
     [EvMessage(1, <<1>>, <<7, 8>>, 1, FALSE) EXCEPT !.payloadlen = 0 - 1],
     [EvMessage(1, <<1>>, <<7, 8>>, 1, FALSE) EXCEPT !.payloadlen = 3, !.after = <<9>>]}

SlicesNext ==
    \/ \E e \in SliceEvents : CallbackEnter(e)
    \/ CallbackBorrow
    \/ CallbackReturn
    \/ CallbackExit

SpecSlices == ConnectedInit /\ [][SlicesNext]_vars

(***************************************************************************)
(* C1: in every interleaving of with_auto_id, with_id and lib_version the  *)
(* native mosquitto_lib_init is invoked at most once, it has been invoked  *)
(* and has returned before any mosquitto_new or mosquitto_lib_version call *)
(* (and before any thread runs past init_library), and                     *)
(* mosquitto_lib_cleanup is never invoked, also after Mosq values have     *)
(* been dropped.                                                           *)
(***************************************************************************)
C1_InitOnce ==
    /\ libInitCalls <= 1
    /\ libInitReturned <= libInitCalls
    /\ libCleanupCalls = 0
    /\ (newCalls + versionCalls > 0) => (libInitCalls = 1 /\ libInitReturned = 1)
    /\ \A t \in Threads : pc[t] = "body" => libInitReturned = 1

\* Both threads have called in, clients were created and all dropped again.
C1_Witness ==
    /\ newCalls >= 2
    /\ versionCalls >= 1
    /\ destroyCalls >= 2
    /\ \A t \in Threads : mosq[t] = "none" /\ pc[t] = "idle" /\ opsDone[t] >= 1
    /\ libInitCalls = 1

ConnectSteps == {"connect", "connect_non_blocking"}
ConnectArgErrors == {"NulError", "MOSQ_ERR_INVAL"}

(***************************************************************************)
(* C2 as stated: a connect or connect_non_blocking call on a session that  *)
(* is Connecting or Connected fails with AlreadyConnected or               *)
(* ConnectInProgress, sends no CONNECT packet, makes no native connect     *)
(* call and leaves the session state unchanged, and at most one CONNECT    *)
(* handshake is outstanding.                                               *)
(***************************************************************************)
C2_NoNativeConnectCall ==
    [][(step' \in ConnectSteps /\ session \in {"Connecting", "Connected"})
        => /\ ~result'.ok
           /\ result'.err \in {"AlreadyConnected", "ConnectInProgress"}
           /\ connectPackets' = connectPackets
           /\ nativeConnectCalls' = nativeConnectCalls
           /\ session' = session
           /\ outstanding' <= 1]_vars

(***************************************************************************)
(* C2 amended: such a call fails, sends no CONNECT packet and leaves the   *)
(* session state unchanged, and at most one CONNECT handshake is           *)
(* outstanding.  The wrapper does no state check of its own: when the      *)
(* arguments convert it makes the native connect call, which rejects it    *)
(* with ConnectInProgress (Connecting) or AlreadyConnected (Connected);    *)
(* when they do not convert the error is the conversion's and no native    *)
(* call is made.                                                           *)
(***************************************************************************)
C2_ConnectRejected ==
    [][(step' \in ConnectSteps /\ session \in {"Connecting", "Connected"})
        => /\ ~result'.ok
           /\ connectPackets' = connectPackets
           /\ session' = session
           /\ outstanding' <= 1
           /\ (outstanding' = 1) = (session' = "Connecting")
           /\ \/ /\ result'.err = (IF session = "Connecting"
                                   THEN "ConnectInProgress" ELSE "AlreadyConnected")
                 /\ nativeConnectCalls' = nativeConnectCalls + 1
              \/ /\ result'.err \in ConnectArgErrors
                 /\ nativeConnectCalls' = nativeConnectCalls]_vars

\* connect was called on a Connected session and was rejected by the native call.
C2_Witness ==
    /\ step = "connect"
    /\ session = "Connected"
    /\ result = Err("AlreadyConnected")
    /\ connectPackets = 1
    /\ nativeConnectCalls = 2

(***************************************************************************)
(* C3: the session state changes only along the transitions of the state   *)
(* machine: Disconnected to Connecting on connect / connect_non_blocking / *)
(* reconnect, Connecting to Connected on a successful CONNACK, Connecting  *)
(* to Disconnected on a failed CONNACK or the connect timeout, Connected   *)
(* to Disconnecting on disconnect, Connected to Disconnected on a received *)
(* DISCONNECT or a socket error, Disconnecting to Disconnected when the    *)
(* DISCONNECT is sent or the socket fails.  So a session that became       *)
(* Disconnected leaves that state only by a connect or reconnect call.     *)
(***************************************************************************)
AllowedTransitions ==
    {<<"Disconnected", o, "Connecting">> : o \in {"connect", "connect_non_blocking", "reconnect"}}
    \cup {<<"Connecting", "connack_ok", "Connected">>,
          <<"Connecting", "connack_fail", "Disconnected">>,
          <<"Connecting", "connect_timeout", "Disconnected">>,
          <<"Connected", "disconnect", "Disconnecting">>,
          <<"Connected", "recv_disconnect", "Disconnected">>,
          <<"Connected", "socket_error", "Disconnected">>,
          <<"Disconnecting", "send_disconnect", "Disconnected">>,
          <<"Disconnecting", "socket_error", "Disconnected">>}

C3_Transitions ==
    [][session' # session => <<session, step', session'>> \in AllowedTransitions]_vars

\* A refused CONNACK left the session Disconnected; the caller's reconnect
\* started the second handshake.
C3_Witness ==
    /\ step = "reconnect"
    /\ session = "Connecting"
    /\ connectPackets = 2
    /\ handlerLog = CallbackWrapper_connect(EvConnect(5))

(***************************************************************************)
(* C9 as stated: at most one I/O loop runs for the client at any time,     *)
(* whatever the interleaving of loop_until_explicitly_disconnected,        *)
(* start_loop_thread and stop_loop_thread calls.                           *)
(***************************************************************************)
RunningLoops ==
    (IF loopThread THEN 1 ELSE 0) + Cardinality({t \in Threads : lpc[t] = "looping"})

C9_SingleLoop == RunningLoops <= 1

(***************************************************************************)
(* C10 as stated: loop_until_explicitly_disconnected returns only after a  *)
(* disconnect call on the client, for every timeout argument.              *)
(***************************************************************************)
C10_ReturnsOnlyAfterDisconnect ==
    step = "loop_until_explicitly_disconnected_return" => disconnectCalls > 0

(***************************************************************************)
(* C4: the message identifiers of the unresolved outbound deliveries are   *)
(* pairwise distinct, and the identifier a successful publish with QoS     *)
(* above 0 or a successful subscribe returns is not zero.                  *)
(***************************************************************************)
C4_DistinctNonZeroMids ==
    /\ \A i, j \in DOMAIN outbound : i # j => outbound[i].mid # outbound[j].mid
    /\ (/\ step \in {"publish", "subscribe"}
        /\ result.ok
        /\ (step = "subscribe" \/ callQos # "AtMostOnce"))
           => result.val # 0

\* The counter has wrapped and skipped: with the first identifier still in
\* use, a publish is given again the identifier of a delivery that was
\* resolved.
C4_Witness ==
    /\ step = "publish" /\ result.ok /\ callQos = "AtLeastOnce"
    /\ Len(outbound) = 2
    /\ outbound[2].mid = result.val
    /\ report = [mid |-> result.val, outcome |-> "Delivered"]
    /\ outbound[1].mid < result.val

(***************************************************************************)
(* C5: a QoS1 publish that returned an identifier is tracked under that    *)
(* identifier; each time its retry interval ends without a PUBACK the same *)
(* PUBLISH is queued again with the DUP flag set and the same identifier,  *)
(* at most RetryLimit times; the timeout after that reports DeliveryFailed *)
(* and the session stays Connected.                                        *)
(***************************************************************************)
C5_RetryQoS1 ==
    [][/\ (step' = "publish" /\ result'.ok /\ callQos' = "AtLeastOnce")
           => /\ Len(outbound') = Len(outbound) + 1
              /\ LET d == outbound'[Len(outbound')]
                 IN  /\ d.kind = "publish" /\ d.mid = result'.val /\ d.qos = 1
                     /\ d.stage = "wait_puback" /\ d.retries = 0
                     /\ outQueue' = Append(outQueue,
                                           Packet("PUBLISH", d.mid, FALSE, 1, d.retain))
       /\ \A i \in DOMAIN outbound :
              LET d == outbound[i]
              IN  (/\ d.kind = "publish" /\ d.qos = 1
                   /\ step' \in {"retry", "delivery_failed"}
                   /\ report'.mid = d.mid)
                  => IF d.retries < RetryLimit
                     THEN /\ step' = "retry"
                          /\ outQueue' = Append(outQueue,
                                                Packet("PUBLISH", d.mid, TRUE, 1, d.retain))
                          /\ outbound' = [outbound EXCEPT ![i].retries = d.retries + 1,
                                                          ![i].sent = FALSE]
                     ELSE /\ step' = "delivery_failed"
                          /\ report'.outcome = "DeliveryFailed"
                          /\ outQueue' = outQueue
                          /\ session = "Connected" /\ session' = "Connected"
       /\ \A i \in DOMAIN outbound' : outbound'[i].retries <= RetryLimit
      ]_vars

\* A QoS1 PUBLISH was written again with DUP set, and its next timeout
\* reported DeliveryFailed.
C5_Witness ==
    /\ step = "delivery_failed"
    /\ report.outcome = "DeliveryFailed"
    /\ session = "Connected"
    /\ \E k \in DOMAIN wire : wire[k] = Packet("PUBLISH", report.mid, TRUE, 1, TRUE)
    /\ \E k \in DOMAIN wire : wire[k] = Packet("PUBLISH", report.mid, FALSE, 1, TRUE)

(***************************************************************************)
(* C6: while the exchange of an inbound QoS2 identifier is open (its        *)
(* PUBLISH was received, once or more often, and its PUBREL was not),      *)
(* on_message has been invoked exactly once for it: the message callback   *)
(* was invoked once, and it has called or is about to call the handler.    *)
(***************************************************************************)
C6_ExactlyOnce ==
    \A m \in 1..MaxMid :
        inbound[m].open
            => OnMessageCount(m) + OnMessagePending(m) - inbound[m].base = 1

\* The same QoS2 PUBLISH was received twice before its PUBREL.
C6_Witness ==
    \E m \in 1..MaxMid :
        /\ inbound[m].open
        /\ inbound[m].received >= 2
        /\ OnMessageCount(m) = 1
        /\ dstack = <<>>

(***************************************************************************)
(* C7 as stated: every event whose callback the native library has invoked *)
(* (and which has got as far as its handler's invocation, or has ended     *)
(* before it) has exactly one handler invocation, of the handler of its    *)
(* kind and with the event's reason code, message id, qos and retain       *)
(* values (and its topic, payload and number of granted values); the       *)
(* invocations are in the order of the events, and each is made before the *)
(* event's callback returns.                                               *)
(***************************************************************************)
HandlerOf ==
    [connect |-> "on_connect", disconnect |-> "on_disconnect",
     publish |-> "on_publish", subscribe |-> "on_subscribe",
     message |-> "on_message"]

Corresponds(e, c) ==
    /\ c.h = HandlerOf[e.kind]
    /\ e.kind \in {"connect", "disconnect"} => c.reason = e.reason
    /\ e.kind \in {"publish", "subscribe", "message"} => c.mid = e.mid
    /\ e.kind = "subscribe" => Len(c.granted_qos) = e.qos_count
    /\ e.kind = "message" =>
           /\ c.qos = <<"AtMostOnce", "AtLeastOnce", "ExactlyOnce">>[e.qos + 1]
           /\ c.retain = e.retain
           /\ c.topic = e.topic
           /\ c.payload = e.payload

C7_OneHandlerPerEvent ==
    /\ Len(handlerLog) = Len(eventLog)
    /\ \A i \in DOMAIN eventLog : Corresponds(eventLog[i], handlerLog[i])

(***************************************************************************)
(* C8 as stated: a call of publish or subscribe made by a running handler  *)
(* (also the handler of a callback raised inside another) returns without  *)
(* a panic, that of the borrow of a callback raised inside the call        *)
(* included, and without touching the borrow of the callback object; its   *)
(* packet is put at the end of the queue and nothing is written during the *)
(* call; and packets reach the wire in the order they were queued.         *)
(***************************************************************************)
HandlerCalled ==
    /\ dstack # <<>>
    /\ Len(dstack') = Len(dstack)
    /\ dstack'[Len(dstack)].ops = dstack[Len(dstack)].ops + 1

C8_ReentrantCalls ==
    [][/\ step' = "callback_panic" /\ ~panicked => Len(dstack) < 2
       /\ HandlerCalled =>
              /\ ~panicked'
              /\ step' \in {"publish", "subscribe"}
              /\ wire' = wire
              /\ cell' = cell
              /\ result'.ok =>
                     /\ Len(outQueue') = Len(outQueue) + 1
                     /\ SubSeq(outQueue', 1, Len(outQueue)) = outQueue
                     /\ outQueue'[Len(outQueue')].mid = result'.val
                     /\ outQueue'[Len(outQueue')].type =
                            (IF step' = "publish" THEN "PUBLISH" ELSE "SUBSCRIBE")
       /\ LET old == wire \o outQueue
              new == wire' \o outQueue'
          IN  Len(new) >= Len(old) /\ SubSeq(new, 1, Len(old)) = old
      ]_vars

(***************************************************************************)
(* C11 as stated: after disconnect is called on a connected client the     *)
(* running loop eventually terminates, every delivery still pending when   *)
(* the loop acts on the disconnect is resolved with a Disconnected         *)
(* outcome, and disconnect is the only operation that cancels the loop: a  *)
(* loop ends only after a disconnect call.                                 *)
(***************************************************************************)
C11_DisconnectOnlyCancels ==
    /\ (disconnectCalls > 0) ~> ~LoopActive
    /\ [][step' = "send_disconnect"
            => /\ outbound' = <<>>
               /\ outcomes' = outcomes \o Resolved(outbound, "Disconnected")]_vars
    /\ [][(LoopActive /\ ~LoopActive') => disconnectCalls > 0]_vars

(***************************************************************************)
(* C11 amended: after disconnect is called on a connected client the       *)
(* running loop (caller-driven or background) eventually terminates when   *)
(* its thread is scheduled, and every delivery still pending when the loop *)
(* acts on the disconnect is resolved with a Disconnected outcome, so no   *)
(* delivery is pending once the session is Disconnected.  A loop ends      *)
(* either at the safe point after a disconnect or, for the background      *)
(* loop, by a stop_loop_thread call, which needs no disconnect and         *)
(* resolves nothing.                                                       *)
(***************************************************************************)
C11_LoopEnds ==
    /\ (disconnectCalls > 0) ~> ~LoopActive
    /\ [](session = "Disconnected" => outbound = <<>>)
    /\ [][step' = "send_disconnect"
            => /\ outbound' = <<>>
               /\ outcomes' = outcomes \o Resolved(outbound, "Disconnected")]_vars
    /\ [][(LoopActive /\ ~LoopActive')
            => \/ /\ step' \in {"loop_thread_exit",
                                 "loop_until_explicitly_disconnected_return"}
                  /\ session = "Disconnected" /\ userDisconnect
                  /\ disconnectCalls > 0
               \/ /\ step' = "stop_loop_thread" /\ result'.ok
                  /\ loopThread /\ ~loopThread'
                  /\ UNCHANGED <<session, outbound, outQueue, outcomes>>]_vars

\* A publish was awaiting its PUBACK when the loop sent the DISCONNECT; it
\* was resolved with a Disconnected outcome and the loop has ended.
C11_Witness ==
    /\ ~LoopActive
    /\ step \in {"loop_thread_exit", "loop_until_explicitly_disconnected_return"}
    /\ session = "Disconnected"
    /\ wire # <<>> /\ wire[Len(wire)].type = "DISCONNECT"
    /\ \E k \in DOMAIN outcomes : /\ outcomes[k].outcome = "Disconnected"
                                   /\ outcomes[k].mid # 0
    /\ outbound = <<>>

\* The publish calls that returned Ok(m), the on_publish(m) invocations, the
\* publishes with identifier m resolved with a failure or Disconnected
\* outcome, and those still under way (tracked, queued for QoS0, or with
\* the publish callback invoked and its handler not yet called).
Count(seq, P(_)) == Cardinality({k \in DOMAIN seq : P(seq[k])})
PublishedCount(m) == Count(issued, LAMBDA x : x.op = "publish" /\ x.mid = m)
OnPublishCount(m) == Count(handlerLog, LAMBDA x : x.h = "on_publish" /\ x.mid = m)
AbandonedCount(m) == Count(outcomes, LAMBDA x : x.kind = "publish" /\ x.mid = m)
UnderWayCount(m) ==
    Count(outbound, LAMBDA x : x.kind = "publish" /\ x.mid = m)
    + Count(outQueue, LAMBDA x : x.type = "PUBLISH" /\ x.qos = 0 /\ x.mid = m)
    + Count(dstack, LAMBDA f : f.pc = "borrow" /\ f.e.kind = "publish" /\ f.e.mid = m)
CompletedCount(m) == OnPublishCount(m) + AbandonedCount(m)

(***************************************************************************)
(* C12: a successful publish returns its identifier with its packet put at *)
(* the end of the queue, nothing written and no handler called during the  *)
(* call; every publish that returned m is eventually completed, by one     *)
(* on_publish(m) or by a DeliveryFailed or Disconnected outcome, and never *)
(* twice (at every moment the publishes that returned m are those         *)
(* completed and those under way, and again and again all are completed);  *)
(* and on_publish(m) is invoked only while a publish that returned m       *)
(* awaits its completion.                                                  *)
(***************************************************************************)
C12_CompletionReported ==
    /\ [][(step' = "publish" /\ result'.ok)
            => /\ wire' = wire
               /\ handlerLog' = handlerLog
               /\ outQueue' = Append(outQueue, outQueue'[Len(outQueue')])
               /\ outQueue'[Len(outQueue')].type = "PUBLISH"
               /\ outQueue'[Len(outQueue')].mid = result'.val]_vars
    /\ [](\A m \in 0..MaxMid :
             PublishedCount(m) = CompletedCount(m) + UnderWayCount(m))
    /\ [][\A m \in 0..MaxMid :
             OnPublishCount(m)' > OnPublishCount(m)
                => /\ OnPublishCount(m)' = OnPublishCount(m) + 1
                   /\ PublishedCount(m) > CompletedCount(m)]_vars
    /\ []<>(\A m \in 0..MaxMid : PublishedCount(m) = CompletedCount(m))

\* One publish was completed by on_publish, one was given up after its
\* retries, and the identifier of the first was given to a third publish.
C12_Witness ==
    /\ \E k \in DOMAIN outcomes : outcomes[k].outcome = "DeliveryFailed"
    /\ \E m \in 1..MaxMid : OnPublishCount(m) >= 1 /\ PublishedCount(m) >= 2
    /\ \A m \in 0..MaxMid : UnderWayCount(m) = 0

\* The packets that carry an operation of the application: the first
\* transmission of a PUBLISH, a SUBSCRIBE, a DISCONNECT.
IsOpPacket(p) == p.type \in {"PUBLISH", "SUBSCRIBE", "DISCONNECT"} /\ ~p.dup
OpOf(p) ==
    Issued(CASE p.type = "PUBLISH" -> "publish"
             [] p.type = "SUBSCRIBE" -> "subscribe"
             [] OTHER -> "disconnect", p.mid)
IsAckEvent(e) == e.kind \in {"publish", "subscribe"}
IsAckCall(c) == c.h \in {"on_publish", "on_subscribe"}

(***************************************************************************)
(* C13: the packets of the operations issued (publish, subscribe,          *)
(* disconnect; by application threads and by running handlers) are queued  *)
(* and written in the order the operations were issued: the operation      *)
(* packets written and queued are, in order, those of the calls that       *)
(* returned Ok, and the loop writes only the packet at the head of the     *)
(* queue.  The acknowledgement handlers (on_publish, on_subscribe) are     *)
(* invoked in the order the acknowledgements were received.                *)
(***************************************************************************)
C13_IssueOrder ==
    /\ [](LET ops == SelectSeq(wire \o outQueue, IsOpPacket)
          IN  /\ Len(ops) = Len(issued)
              /\ \A k \in DOMAIN ops : OpOf(ops[k]) = issued[k])
    /\ [][wire' # wire => /\ outQueue # <<>>
                          /\ wire' = Append(wire, Head(outQueue))
                          /\ outQueue' = Tail(outQueue)]_vars
    /\ [](LET acks == SelectSeq(eventLog, IsAckEvent)
              calls_ == SelectSeq(handlerLog, IsAckCall)
          IN  /\ Len(acks) = Len(calls_)
              /\ \A k \in DOMAIN acks :
                     /\ calls_[k].h = HandlerOf[acks[k].kind]
                     /\ calls_[k].mid = acks[k].mid)

\* A handler and an application thread have published, a disconnect was
\* issued after them and the loop has written all three packets in that
\* order; a subscribe and a publish acknowledgement were dispatched.
C13_Witness ==
    /\ Len(issued) >= 3
    /\ issued[Len(issued)].op = "disconnect"
    /\ outQueue = <<>>
    /\ wire[Len(wire)].type = "DISCONNECT"
    /\ \E k \in DOMAIN handlerLog : handlerLog[k].h = "on_publish"
    /\ \E k \in DOMAIN handlerLog : handlerLog[k].h = "on_subscribe"
    /\ \E k \in DOMAIN issued : issued[k].op = "subscribe"

HasNul(s) == \E i \in DOMAIN s : s[i] = 0
HasWildcard(s) == \E i \in DOMAIN s : s[i] \in {2, 3}
InvalidTopic(o, s) == s = <<>> \/ HasNul(s) \/ (o = "publish" /\ HasWildcard(s))

(***************************************************************************)
(* C14 as stated: a publish or subscribe call whose topic / filter is      *)
(* empty, contains a NUL or (publish) contains a wildcard returns an       *)
(* error; no native publish / subscribe call is made, no packet is queued  *)
(* and no message identifier is consumed.                                  *)
(***************************************************************************)
C14_NoNativeCall ==
    [][(step' \in {"publish", "subscribe"} /\ InvalidTopic(step', callArgs'.topic))
        => /\ ~result'.ok
           /\ nativeCalls' = nativeCalls
           /\ outQueue' = outQueue /\ wire' = wire
           /\ lastMid' = lastMid /\ outbound' = outbound]_vars

(***************************************************************************)
(* C14 amended: such a call returns an error, no packet is queued or       *)
(* written and no message identifier is consumed.  The wrapper itself      *)
(* checks only for a NUL (the conversion to a C string): then the error is *)
(* the conversion's and no native call is made.  An empty topic or filter  *)
(* and a wildcard in a publish topic are passed to the native publish /    *)
(* subscribe call, which is made once and rejects them, unless the payload *)
(* of the publish is longer than the native int holds: then the wrapper    *)
(* returns MOSQ_ERR_PAYLOAD_SIZE and no native call is made.               *)
(***************************************************************************)
C14_InvalidTopicRejected ==
    [][(step' \in {"publish", "subscribe"} /\ InvalidTopic(step', callArgs'.topic))
        => /\ ~result'.ok
           /\ outQueue' = outQueue /\ wire' = wire
           /\ lastMid' = lastMid /\ outbound' = outbound
           /\ issued' = issued
           /\ IF HasNul(callArgs'.topic)
              THEN result'.err = "NulError" /\ nativeCalls' = nativeCalls
              ELSE IF ~fits_c_int(callArgs'.len)
              THEN /\ result'.err = "MOSQ_ERR_PAYLOAD_SIZE"
                   /\ nativeCalls' = nativeCalls
              ELSE result'.err = "InvalidArgument" /\ nativeCalls' = nativeCalls + 1]_vars

\* While an earlier publish was under way, a publish with a wildcard in its
\* topic was rejected by the native call, and then one with an empty topic
\* and a payload of 2^31 bytes by the wrapper.
C14_Witness ==
    /\ step = "publish"
    /\ callArgs.topic = <<>> /\ callArgs.len = Wide(1, 0)
    /\ result = Err("MOSQ_ERR_PAYLOAD_SIZE")
    /\ nativeCalls = 2
    /\ rc = "InvalidArgument"
    /\ Len(outbound) = 1 /\ lastMid = 1

(***************************************************************************)
(* C17: on a connected client a publish with a valid topic succeeds for    *)
(* every payload length from 0 to 268,435,455 and returns an error for     *)
(* every other length; a length that does not fit the native int is        *)
(* rejected by the wrapper with MOSQ_ERR_PAYLOAD_SIZE and without a native *)
(* publish call, a longer one that fits is rejected by the native call.    *)
(***************************************************************************)
C17_PayloadLength ==
    [][(step' = "publish" /\ ~InvalidTopic("publish", callArgs'.topic)
                          /\ session = "Connected")
        => LET n == callArgs'.len
           IN  /\ result'.ok = (n.hi = 0 /\ n.lo <= 268435455)
               /\ ~fits_c_int(n) => /\ result' = Err("MOSQ_ERR_PAYLOAD_SIZE")
                                    /\ nativeCalls' = nativeCalls
               /\ (fits_c_int(n) /\ n.lo > 268435455)
                      => /\ nativeCalls' = nativeCalls + 1
                         /\ outQueue' = outQueue /\ lastMid' = lastMid]_vars

\* A payload of 2^31 bytes was rejected by the wrapper after one of
\* 268,435,455 bytes had been accepted.
C17_Witness ==
    /\ step = "publish"
    /\ callArgs.len = Wide(1, 0)
    /\ result = Err("MOSQ_ERR_PAYLOAD_SIZE")
    /\ nativeCalls = 1
    /\ Len(outbound) = 1

(***************************************************************************)
(* C15: a socket error while Connected moves the session to Disconnected;  *)
(* the unresolved deliveries are left as they are if the client was        *)
(* created with clean_session = false and are all discarded if it was      *)
(* created with clean_session = true, as every client created by           *)
(* with_auto_id is.                                                        *)
(***************************************************************************)
C15_SocketError ==
    [][(step' = "socket_error" /\ session = "Connected")
        => /\ session' = "Disconnected"
           /\ ~clean_session[1] => outbound' = outbound
           /\ clean_session[1] => outbound' = <<>>
           /\ op[1] = "with_auto_id" => outbound' = <<>>]_vars

\* The socket failed a second time, after a reconnect, with a delivery of a
\* client without clean session still unresolved.
C15_Witness ==
    /\ step = "socket_error"
    /\ session = "Disconnected"
    /\ ~clean_session[1]
    /\ Len(outbound) >= 1
    /\ connectPackets = 2

(***************************************************************************)
\* The subscribe callback the native library invoked for a SUBACK goes on
\* from its read of the borrow flag.
SubackBorrowed ==
    /\ dstack # <<>>
    /\ dstack[Len(dstack)].pc = "borrow"
    /\ dstack[Len(dstack)].e.kind = "subscribe"
    /\ dstack' # dstack

(***************************************************************************)
(* C16: when a SUBACK is dispatched, on_subscribe is invoked once with the *)
(* message id of the subscribe request it acknowledges and with a list of  *)
(* exactly qos_count granted values, in the order of the SUBACK payload,   *)
(* where a granted 0, 1, 2 is AtMostOnce, AtLeastOnce, ExactlyOnce.        *)
(***************************************************************************)
C16_GrantedQoS ==
    [][/\ step' = "suback"
          => /\ dstack' = Append(dstack, dstack'[Len(dstack')])
             /\ handlerLog' = handlerLog
             /\ LET f == dstack'[Len(dstack')]
                IN  /\ f.e.kind = "subscribe" /\ f.pc = "borrow"
                    /\ \E k \in DOMAIN issued : issued[k] = Issued("subscribe", f.e.mid)
                    /\ \E i \in DOMAIN outbound :
                           /\ outbound[i].kind = "subscribe" /\ outbound[i].mid = f.e.mid
                           /\ outbound' = Remove(outbound, i)
       /\ SubackBorrowed
          => /\ step' = "callback_invoke"
             /\ eventLog' = Append(eventLog, dstack[Len(dstack)].e)
             /\ Len(handlerLog') = Len(handlerLog) + 1
             /\ LET e == eventLog'[Len(eventLog')]
                    call == handlerLog'[Len(handlerLog')]
                IN  /\ call.h = "on_subscribe"
                    /\ call.mid = e.mid
                    /\ Len(call.granted_qos) = e.qos_count
                    /\ \A k \in 1..e.qos_count :
                           /\ e.granted_qos[k] = 0 => call.granted_qos[k] = "AtMostOnce"
                           /\ e.granted_qos[k] = 1 => call.granted_qos[k] = "AtLeastOnce"
                           /\ e.granted_qos[k] = 2 => call.granted_qos[k] = "ExactlyOnce"
       /\ handlerLog' # handlerLog => SubackBorrowed
      ]_vars

\* The second of two subscribe requests was acknowledged first, with three
\* granted values.
C16_Witness ==
    /\ step = "callback_invoke"
    /\ handlerLog[Len(handlerLog)] =
           [NoCall EXCEPT !.h = "on_subscribe", !.mid = 2,
                          !.granted_qos = <<"AtMostOnce", "AtLeastOnce", "ExactlyOnce">>]
    /\ Len(outbound) = 1 /\ outbound[1].mid = 1

\* The borrows of the callback object that are live: one for each callback
\* that holds its Ref and one for each Ref a thread holds.
LiveBorrows ==
    LET RECURSIVE Held(_)
        Held(n) == IF n = 0 THEN 0 ELSE refs[n].held + Held(n - 1)
    IN  Cardinality({i \in DOMAIN dstack : dstack[i].pc \in {"handler", "drop", "unwind"}})
        + Held(NThreads)

\* No thread is between the read and the write of a borrow or of a drop.
NoneHalfWay ==
    /\ \A t \in Threads : refs[t].pc = "idle"
    /\ \A i \in DOMAIN dstack : dstack[i].pc = "handler"

(***************************************************************************)
(* C18 as stated: in every interleaving of get_callbacks (and the holding  *)
(* and dropping of the Ref it returns) on application threads with the     *)
(* callbacks of the loop thread, the borrow count of the callback object   *)
(* equals the number of live borrows whenever no borrow or drop is half    *)
(* way, and no thread panics.                                              *)
(***************************************************************************)
C18_BorrowCountConsistent ==
    /\ NoneHalfWay => cell = LiveBorrows
    /\ \A t \in Threads : refs[t].pc # "panicked"
    /\ cell >= 0

(***************************************************************************)
(* C19 as stated: get_callbacks on the constructed Mosq returns a Ref to   *)
(* the callbacks object registered at construction (it never panics, and   *)
(* every Ref held refers to the object the dispatcher invokes), while      *)
(* get_callbacks on the transient client of a handler never returns: it    *)
(* panics.                                                                 *)
(***************************************************************************)
C19_GetCallbacks ==
    /\ \A t \in Threads : refs[t].pc # "panicked"
    /\ \A t \in Threads : refs[t].held > 0 => refs[t].target = Some(UserData)
    /\ step # "handler_get_callbacks"

(***************************************************************************)
(* C20 as stated: the native handle is destroyed only when the owning Mosq *)
(* is dropped and at most once: while the owning Mosq is live, and after   *)
(* any number of dispatched callbacks, mosquitto_destroy has not been      *)
(* called.                                                                 *)
(***************************************************************************)
C20_DestroyedOnlyByOwner ==
    /\ destroyCalls <= 1
    /\ mosq[1] = "live" => destroyCalls = 0

\* The five callbacks of the native interface that the wrapper has handlers for.
FiveCallbacks == {"connect", "disconnect", "publish", "subscribe", "message"}

(***************************************************************************)
(* C21: a Mosq that exists has exactly the five callbacks connect,         *)
(* disconnect, publish, subscribe and message registered on its handle     *)
(* (no unsubscribe or log callback); every connect or loop operation is    *)
(* issued on a handle with the five registered, and every event dispatched *)
(* is of a kind whose callback is registered.                              *)
(***************************************************************************)
C21_HandlersInstalled ==
    /\ [](\A t \in Threads : mosq[t] = "live" => registered[t] = FiveCallbacks)
    /\ [][(calls' > calls \/ loopThread' # loopThread)
              => registered[1] = FiveCallbacks]_vars
    /\ [][Len(dstack') > Len(dstack)
              => dstack'[Len(dstack')].e.kind \in registered[1]]_vars
    /\ [][Len(eventLog') > Len(eventLog)
              => eventLog'[Len(eventLog')].kind \in registered[1]]_vars

\* The client was constructed at the second attempt, connected, its loop
\* was started and the CONNACK was dispatched to on_connect.
C21_Witness ==
    /\ opsDone[1] = 2
    /\ mosq[1] = "live"
    /\ step = "callback_return"
    /\ Len(eventLog) = 1 /\ eventLog[1].kind = "connect"
    /\ Len(handlerLog) = 1 /\ handlerLog[1].h = "on_connect"

(***************************************************************************)
(* C22: when a constructor returns, an id with an embedded NUL has given   *)
(* an error with no mosquitto_new call; a null handle from mosquitto_new   *)
(* has given Error::Create; and after either failure the thread owns no    *)
(* Mosq, no callback is registered, the callback object is released and    *)
(* mosquitto_destroy was not called.                                       *)
(***************************************************************************)
C22_FailureLeavesNothing ==
    [][\A t \in Threads :
          (pc[t] = "body" /\ op[t] \in {"with_auto_id", "with_id"} /\ pc'[t] = "idle")
          => /\ created'.result \in {"Ok", "Nul", "Create"}
             /\ HasNul(created'.id)
                    => created'.result = "Nul" /\ newCalls' = newCalls
             /\ ~HasNul(created'.id) => newCalls' = newCalls + 1
             /\ created'.null => created'.result = "Create"
             /\ created'.result = "Nul" => op[t] = "with_id"
             /\ created'.result # "Ok"
                    => /\ mosq'[t] = "none"
                       /\ registered'[t] = {}
                       /\ cbArc'[t] = 0
                       /\ destroyCalls' = destroyCalls]_vars

\* The first construction failed on the NUL in the id, without a
\* mosquitto_new call; the second has just failed on a null handle.
C22_Witness ==
    /\ opsDone[1] = 2
    /\ newCalls = 1
    /\ created.null /\ created.result = "Create"
    /\ mosq[1] = "none" /\ cbArc[1] = 0 /\ destroyCalls = 0

\* What a connect call with these arguments must have done.
ConnectPost(host, keep_alive_interval, bind_address) ==
    LET nul == HasNul(host) \/ (bind_address.some /\ HasNul(bind_address.s))
        wide == keep_alive_interval.secs.hi # 0
        seconds == keep_alive_interval.secs.lo
        NoNativeCall ==
            /\ nativeConnectCalls' = nativeConnectCalls
            /\ connectPackets' = connectPackets
            /\ session' = session
            /\ connParams' = connParams
            /\ rc' = rc
    IN  /\ nul => ~result'.ok /\ result'.err = "NulError" /\ NoNativeCall
        /\ (~nul /\ wide) => result' = Err("MOSQ_ERR_INVAL") /\ NoNativeCall
        /\ (~nul /\ ~wide)
               => /\ nativeConnectCalls' = nativeConnectCalls + 1
                  /\ rc' = "Success" => connParams' = StoredParams(seconds)
                  /\ session = "Disconnected" => (rc' = "Success" <=> seconds >= 5)
                  /\ result'.ok <=> rc' = "Success"

(***************************************************************************)
(* C23: connect and connect_non_blocking hand the native library the whole *)
(* seconds of the keep-alive interval (the sub-second part dropped); when  *)
(* the seconds do not fit the native int they return MOSQ_ERR_INVAL, and   *)
(* when the host or the bind address holds a NUL they return an error, in  *)
(* both cases with no native call and the connection state as it was.      *)
(***************************************************************************)
C23_KeepAliveSeconds ==
    [][\A h \in ArgHosts, k \in ArgKeepAlives, b \in ArgBindAddresses :
          (connect(h, k, b) \/ connect_non_blocking(h, k, b)) => ConnectPost(h, k, b)]_vars

\* A connect with the interval of 5.999999999 s was accepted with a
\* keep-alive of 5 after an earlier call had been made.
C23_Witness ==
    /\ step \in {"connect", "connect_non_blocking"}
    /\ calls >= 2
    /\ result.ok
    /\ session = "Connecting"
    /\ connParams = StoredParams(5)

\* The level the claim gives for a native int.
LevelOf(i) ==
    IF i = 0 THEN "AtMostOnce" ELSE IF i = 1 THEN "AtLeastOnce" ELSE "ExactlyOnce"

(***************************************************************************)
(* C24: QoS::from_int is total and a left inverse of the cast of a QoS to  *)
(* the native int: the int a subscribe call hands the native library for   *)
(* the level q converts back to q; and on_subscribe receives, for every    *)
(* granted int, AtMostOnce for 0, AtLeastOnce for 1 and ExactlyOnce for 2   *)
(* and for every other value (negative ones and 128 included).             *)
(***************************************************************************)
C24_FromIntLeftInverse ==
    /\ [][(step' = "subscribe" /\ result'.ok)
              => QoS_from_int(outbound'[Len(outbound')].qos) = callQos']_vars
    /\ [][SubackBorrowed
              => LET e == eventLog'[Len(eventLog')]
                     call == handlerLog'[Len(handlerLog')]
                 IN  /\ e = dstack[Len(dstack)].e
                     /\ Len(eventLog') = Len(eventLog) + 1
                     /\ Len(handlerLog') = Len(handlerLog) + 1
                     /\ call.h = "on_subscribe"
                     /\ Len(call.granted_qos) = Len(e.granted_qos)
                     /\ \A k \in DOMAIN e.granted_qos :
                            /\ call.granted_qos[k] \in QoSLevels
                            /\ call.granted_qos[k] = LevelOf(e.granted_qos[k])]_vars

\* A request made at AtLeastOnce was granted as asked and on_subscribe was
\* given AtLeastOnce; then a SUBACK with the failure code 128 was
\* dispatched, and on_subscribe was given ExactlyOnce.
C24_Witness ==
    /\ step = "callback_invoke"
    /\ Len(handlerLog) = 3
    /\ handlerLog[2].h = "on_subscribe" /\ handlerLog[2].granted_qos = <<"AtLeastOnce">>
    /\ eventLog[2].granted_qos = <<1>>
    /\ eventLog[3].granted_qos = <<128>>
    /\ handlerLog[3].granted_qos = <<"ExactlyOnce">>

C26_DisplayOrder ==
    [][text' # text
        => text' = c_int_fmt(vers.major) \o <<".">> \o c_int_fmt(vers.minor)
                       \o <<".">> \o c_int_fmt(vers.revision)]_vars

====
